---- MODULE Spec2Model ----
(***************************************************************************)
(* Model of the SDLC orchestration scripts.                                *)
(*                                                                         *)
(* The test execution engine, scripts/execute-tests.js; the resolution of  *)
(* the API URL; the deployment-type detector, scripts/detect-iac.sh;       *)
(* extractJSON of scripts/ai-client.js; the test-plan synthesizer,         *)
(* scripts/ai-generate-tests.js, and the test stage made of it and of the  *)
(* execution engine; the deployment script, scripts/run-deployment.sh;     *)
(* the extraction of the outputs, scripts/extract-outputs.sh; the plan,    *)
(* file and fix generators, scripts/ai-generate-plan.js,                   *)
(* scripts/ai-generate-file.js and scripts/ai-generate-fix.js; the         *)
(* dispatch of callAI in scripts/ai-client.js; and the deployment pipeline *)
(* made of the detector, the deployment, the extraction and the test stage; *)
(* getNestedValue of scripts/execute-tests.js on its own; the routes of    *)
(* the Platform Hub, platform-hub/app/api, with platform-hub/lib/          *)
(* github-client.ts; and the waits of the stages for their network calls.  *)
(*                                                                         *)
(* JavaScript strings are sequences of one-character strings.  JSON values *)
(* are tagged records:                                                     *)
(*   [t |-> "str", s |-> chars]      [t |-> "num", n |-> Int]              *)
(*   [t |-> "null"]                  [t |-> "undef"]                       *)
(*   [t |-> "arr", a |-> <<values>>]                                      *)
(*   [t |-> "obj", o |-> << <<key, value>>, ... >>]  (insertion order)    *)
(*   [t |-> "fn",  f |-> chars]      (a function inherited from            *)
(*                                    Object.prototype, named f)           *)
(***************************************************************************)
EXTENDS Integers, Sequences, FiniteSets, TLC

----------------------------------------------------------------------------
(* Value constructors *)

Str(s) == [t |-> "str", s |-> s]
Num(n) == [t |-> "num", n |-> n]
Null == [t |-> "null"]
Undefined == [t |-> "undef"]
Arr(a) == [t |-> "arr", a |-> a]
Obj(o) == [t |-> "obj", o |-> o]
Fn(f) == [t |-> "fn", f |-> f]

(* \w of the regular expression in replaceVariables: [A-Za-z0-9_] *)
WordChars ==
  {"a","b","c","d","e","f","g","h","i","j","k","l","m","n","o","p","q","r",
   "s","t","u","v","w","x","y","z","A","B","C","D","E","F","G","H","I","J",
   "K","L","M","N","O","P","Q","R","S","T","U","V","W","X","Y","Z","0","1",
   "2","3","4","5","6","7","8","9","_"}

Digits == <<"0","1","2","3","4","5","6","7","8","9">>

(* Properties every plain object inherits from Object.prototype; the `in`  *)
(* operator sees them, Object.entries and the spread operator do not.      *)
ObjectPrototype ==
  << << <<"c","o","n","s","t","r","u","c","t","o","r">>, Fn(<<"O","b","j","e","c","t">>) >>,
     << <<"t","o","S","t","r","i","n","g">>, Fn(<<"t","o","S","t","r","i","n","g">>) >>,
     << <<"v","a","l","u","e","O","f">>, Fn(<<"v","a","l","u","e","O","f">>) >> >>

----------------------------------------------------------------------------
(* Property access on ordered key/value lists *)

Keys(o) == {o[i][1] : i \in 1..Len(o)}

HasOwn(o, k) == k \in Keys(o)

OwnGet(o, k) == o[CHOOSE i \in 1..Len(o) : o[i][1] = k][2]

(* JavaScript `k in obj` for a plain object: own or inherited *)
In(o, k) == HasOwn(o, k) \/ HasOwn(ObjectPrototype, k)

(* JavaScript obj[k] for a plain object *)
Get(o, k) ==
  IF HasOwn(o, k) THEN OwnGet(o, k)
  ELSE IF HasOwn(ObjectPrototype, k) THEN OwnGet(ObjectPrototype, k)
  ELSE Undefined

(* JavaScript obj[k] = v: an existing key keeps its position *)
SetKeepsFirst(o, k, v) == IF HasOwn(o, k) THEN o ELSE Append(o, <<k, v>>)

Set(o, k, v) ==
  IF HasOwn(o, k)
  THEN [i \in 1..Len(o) |-> IF o[i][1] = k THEN <<k, v>> ELSE o[i]]
  ELSE Append(o, <<k, v>>)

----------------------------------------------------------------------------
(* String coercion, as String.prototype.replace and template literals do   *)

RECURSIVE NumStr(_)
NumStr(n) ==
  IF n < 0 THEN <<"-">> \o NumStr(0 - n)
  ELSE IF n < 10 THEN <<Digits[n + 1]>>
  ELSE NumStr(n \div 10) \o <<Digits[(n % 10) + 1]>>

RECURSIVE ToStr(_)
RECURSIVE JoinArr(_, _)
JoinArr(a, i) ==
  IF i > Len(a) THEN <<>>
  ELSE (IF i > 1 THEN <<",">> ELSE <<>>)
       \o (IF a[i].t \in {"null", "undef"} THEN <<>> ELSE ToStr(a[i]))
       \o JoinArr(a, i + 1)

ToStr(v) ==
  CASE v.t = "str" -> v.s
    [] v.t = "num" -> NumStr(v.n)
    [] v.t = "null" -> <<"n","u","l","l">>
    [] v.t = "undef" -> <<"u","n","d","e","f","i","n","e","d">>
    [] v.t = "arr" -> JoinArr(v.a, 1)
    [] v.t = "obj" -> <<"[","o","b","j","e","c","t"," ","O","b","j","e","c","t","]">>
    [] v.t = "fn" -> <<"f","u","n","c","t","i","o","n"," ">> \o v.f
                     \o <<"(",")"," ","{"," ","[","n","a","t","i","v","e"," ","c","o","d","e","]"," ","}">>

(* JavaScript truthiness *)
Truthy(v) ==
  CASE v.t = "str" -> v.s # <<>>
    [] v.t = "num" -> v.n # 0
    [] v.t \in {"null", "undef"} -> FALSE
    [] OTHER -> TRUE

----------------------------------------------------------------------------
(* replaceVariables: str.replace(/\$\{(\w+)\}/g, ...)                      *)

(* end of the maximal run of word characters starting at position i *)
RECURSIVE WordRunEnd(_, _)
WordRunEnd(s, i) ==
  IF i <= Len(s) /\ s[i] \in WordChars THEN WordRunEnd(s, i + 1) ELSE i

(* the regular expression matches at position i *)
MatchAt(s, i) ==
  /\ i + 3 <= Len(s)
  /\ s[i] = "$"
  /\ s[i + 1] = "{"
  /\ WordRunEnd(s, i + 2) > i + 2
  /\ WordRunEnd(s, i + 2) <= Len(s)
  /\ s[WordRunEnd(s, i + 2)] = "}"

(* the callback of replace: (match, varName) => ... *)
Replacer(variables, match, varName) ==
  IF In(variables, varName) THEN ToStr(Get(variables, varName)) ELSE match

RECURSIVE ReplaceFrom(_, _, _)
ReplaceFrom(s, i, variables) ==
  IF i > Len(s) THEN <<>>
  ELSE IF MatchAt(s, i)
  THEN LET e == WordRunEnd(s, i + 2)
       IN Replacer(variables, SubSeq(s, i, e), SubSeq(s, i + 2, e - 1))
          \o ReplaceFrom(s, e + 1, variables)
  ELSE <<s[i]>> \o ReplaceFrom(s, i + 1, variables)

(* str is a value; variables an ordered key/value list *)
replaceVariables(str, variables) ==
  IF str.t # "str" THEN str ELSE Str(ReplaceFrom(str.s, 1, variables))

RECURSIVE replaceVariablesInObject(_, _)
replaceVariablesInObject(obj, variables) ==
  CASE obj.t = "str" -> replaceVariables(obj, variables)
    [] obj.t = "arr" ->
         Arr([i \in 1..Len(obj.a) |-> replaceVariablesInObject(obj.a[i], variables)])
    [] obj.t = "obj" ->
         Obj([i \in 1..Len(obj.o) |->
               <<obj.o[i][1], replaceVariablesInObject(obj.o[i][2], variables)>>])
    [] OTHER -> obj

----------------------------------------------------------------------------
(* getNestedValue *)

StripResponseNever(path) == path

(* path.replace(/^response\./, '') *)
StripResponse(path) ==
  IF Len(path) >= 9
     /\ SubSeq(path, 1, 9) = <<"r","e","s","p","o","n","s","e",".">>
  THEN SubSeq(path, 10, Len(path))
  ELSE path

(* s.split('.') *)
RECURSIVE SplitFrom(_, _, _)
SplitFrom(s, i, cur) ==
  IF i > Len(s) THEN <<cur>>
  ELSE IF s[i] = "." THEN <<cur>> \o SplitFrom(s, i + 1, <<>>)
  ELSE SplitFrom(s, i + 1, Append(cur, s[i]))

Split(s) == SplitFrom(s, 1, <<>>)

DigitVal(c) == CHOOSE d \in 0..9 : Digits[d + 1] = c

RECURSIVE DecVal(_, _)
DecVal(s, acc) ==
  IF s = <<>> THEN acc ELSE DecVal(Tail(s), acc * 10 + DigitVal(Head(s)))

(* part is a canonical array index *)
IsIndex(part) ==
  /\ part # <<>>
  /\ \A i \in 1..Len(part) : \E d \in 1..10 : Digits[d] = part[i]
  /\ (Len(part) > 1 => part[1] # "0")

ArrayPrototype ==
  << << <<"c","o","n","s","t","r","u","c","t","o","r">>, Fn(<<"A","r","r","a","y">>) >>,
     << <<"t","o","S","t","r","i","n","g">>, Fn(<<"t","o","S","t","r","i","n","g">>) >>,
     << <<"v","a","l","u","e","O","f">>, Fn(<<"v","a","l","u","e","O","f">>) >> >>

(* `part in value` where value is an object or an array *)
PartIn(value, part) ==
  CASE value.t = "obj" -> In(value.o, part)
    [] value.t = "arr" ->
         \/ IsIndex(part) /\ DecVal(part, 0) < Len(value.a)
         \/ part = <<"l","e","n","g","t","h">>
         \/ HasOwn(ArrayPrototype, part)
    [] OTHER -> FALSE

(* value[part], given PartIn(value, part) *)
PartGet(value, part) ==
  CASE value.t = "obj" -> Get(value.o, part)
    [] value.t = "arr" ->
         IF IsIndex(part) /\ DecVal(part, 0) < Len(value.a)
         THEN value.a[DecVal(part, 0) + 1]
         ELSE IF part = <<"l","e","n","g","t","h">> THEN Num(Len(value.a))
         ELSE OwnGet(ArrayPrototype, part)
    [] OTHER -> Undefined

(* value && typeof value === 'object' *)
IsObjectLike(value) == value.t \in {"obj", "arr"}

RECURSIVE Walk(_, _, _)
Walk(value, parts, i) ==
  IF i > Len(parts) THEN value
  ELSE IF IsObjectLike(value) /\ PartIn(value, parts[i])
  THEN Walk(PartGet(value, parts[i]), parts, i + 1)
  ELSE Undefined

getNestedValue(obj, path) == Walk(obj, Split(StripResponse(path)), 1)

----------------------------------------------------------------------------
(* executeStep *)

UpperCase == <<"A","B","C","D","E","F","G","H","I","J","K","L","M","N","O","P","Q","R","S","T","U","V","W","X","Y","Z">>
LowerCase == <<"a","b","c","d","e","f","g","h","i","j","k","l","m","n","o","p","q","r","s","t","u","v","w","x","y","z">>

(* method.toLowerCase() *)
toLowerCase(s) ==
  [i \in 1..Len(s) |->
     IF \E j \in 1..26 : UpperCase[j] = s[i]
     THEN LowerCase[CHOOSE j \in 1..26 : UpperCase[j] = s[i]]
     ELSE s[i]]

(* timeout: 30000 in the axios request *)
RequestTimeoutMs == 30000

(* the axios request of a step: endpoint and body after substitution *)
BuildRequest(step, variables, baseUrl) ==
  [method |-> toLowerCase(step.method),
   url |-> ToStr(baseUrl) \o ToStr(replaceVariables(step.endpoint, variables)),
   data |-> IF Truthy(step.body)
            THEN replaceVariablesInObject(step.body, variables)
            ELSE Undefined,
   headers |-> IF Truthy(step.headers) THEN step.headers ELSE Obj(<<>>),
   timeout |-> RequestTimeoutMs]

(* What the awaited axios call does: with validateStatus: () => true it    *)
(* resolves with any status, and it rejects on a network error or when the *)
(* timeout expires.                                                        *)
Resolved(status, data) == [kind |-> "resolved", status |-> status, data |-> data]
Rejected(message) == [kind |-> "rejected", status |-> 0, data |-> Str(message)]

MismatchMessage(status) ==
  <<"S","t","a","t","u","s"," ","c","o","d","e"," ","m","i","s","m","a","t","c","h",":"," ">>
  \o NumStr(status)

(* the value executeStep returns *)
StepResultAny2xxPasses(step, response) ==
  IF response.kind = "rejected"
  THEN [success |-> FALSE, error |-> response.data]
  ELSE IF response.status \div 100 # 2
  THEN [success |-> FALSE, error |-> Str(MismatchMessage(response.status))]
  ELSE [success |-> TRUE, error |-> Undefined]

StepResultRejectPasses(step, response) ==
  IF response.kind = "rejected"
  THEN [success |-> TRUE, error |-> Undefined]
  ELSE IF response.status # step.expectedStatus
  THEN [success |-> FALSE, error |-> Str(MismatchMessage(response.status))]
  ELSE [success |-> TRUE, error |-> Undefined]

StepResult(step, response) ==
  IF response.kind = "rejected"
  THEN [success |-> FALSE, error |-> response.data]
  ELSE IF response.status # step.expectedStatus
  THEN [success |-> FALSE, error |-> Str(MismatchMessage(response.status))]
  ELSE [success |-> TRUE, error |-> Undefined]

(* the loop over Object.entries(storeVariables), from entry i on;          *)
(* a step without storeVariables has the empty list                        *)
RECURSIVE StoreFrom(_, _, _, _)
StoreFrom(variables, storeVariables, i, data) ==
  IF i > Len(storeVariables) THEN variables
  ELSE LET value == getNestedValue(data, storeVariables[i][2])
       IN StoreFrom(IF value # Undefined
                    THEN Set(variables, storeVariables[i][1], value)
                    ELSE variables,
                    storeVariables, i + 1, data)

(* variables after executeStep returned *)
VariablesAfter(step, variables, response) ==
  IF StepResult(step, response).success
  THEN StoreFrom(variables, step.storeVariables, 1, response.data)
  ELSE variables

(* the names for which "Could not extract" is logged *)
WarningsOf(step, response) ==
  IF StepResult(step, response).success
  THEN {step.storeVariables[i][1] : i \in
          {j \in 1..Len(step.storeVariables) :
             getNestedValue(response.data, step.storeVariables[j][2]) = Undefined}}
  ELSE {}

----------------------------------------------------------------------------
(* main: resolution of the base URL *)

ConventionalKeys ==
  << <<"A","p","i","U","r","l">>,
     <<"a","p","i","_","u","r","l">>,
     <<"e","n","d","p","o","i","n","t">>,
     <<"u","r","l">>,
     <<"S","e","r","v","i","c","e","E","n","d","p","o","i","n","t">>,
     <<"H","t","t","p","A","p","i","U","r","l">> >>

startsWithHttp(v) ==
  /\ v.t = "str"
  /\ Len(v.s) >= 4
  /\ SubSeq(v.s, 1, 4) = <<"h","t","t","p">>

FindHttpLast(outputs) ==
  IF \E i \in 1..Len(outputs) : startsWithHttp(outputs[i][2])
  THEN outputs[CHOOSE i \in 1..Len(outputs) :
                 /\ startsWithHttp(outputs[i][2])
                 /\ \A j \in (i + 1)..Len(outputs) : ~startsWithHttp(outputs[j][2])][2]
  ELSE Undefined

(* Object.values(outputs).find(v => typeof v === 'string' && v.startsWith('http')) *)
FindHttp(outputs) ==
  IF \E i \in 1..Len(outputs) : startsWithHttp(outputs[i][2])
  THEN outputs[CHOOSE i \in 1..Len(outputs) :
                 /\ startsWithHttp(outputs[i][2])
                 /\ \A j \in 1..(i - 1) : ~startsWithHttp(outputs[j][2])][2]
  ELSE Undefined

(* a || b || ... from conventional key i on *)
RECURSIVE OrChain(_, _)
OrChain(outputs, i) ==
  IF i > Len(ConventionalKeys) THEN FindHttp(outputs)
  ELSE IF Truthy(Get(outputs, ConventionalKeys[i])) THEN Get(outputs, ConventionalKeys[i])
  ELSE OrChain(outputs, i + 1)

ResolveBaseUrlKeysOnly(outputs) ==
  IF \E i \in 1..Len(ConventionalKeys) : Truthy(Get(outputs, ConventionalKeys[i]))
  THEN OrChain(outputs, 1)
  ELSE Undefined

ResolveBaseUrl(outputs) == OrChain(outputs, 1)

----------------------------------------------------------------------------
(* scripts/ai-generate-tests.js, main: resolution of the API URL           *)

ResolveApiUrlEndpointFirst(outputs) ==
  IF Truthy(Get(outputs, <<"e","n","d","p","o","i","n","t">>))
  THEN Get(outputs, <<"e","n","d","p","o","i","n","t">>)
  ELSE OrChain(outputs, 1)

ResolveApiUrlFirstValue(outputs) == IF outputs = <<>> THEN Undefined ELSE outputs[1][2]

(* outputs.ApiUrl || outputs.api_url || ... || Object.values(outputs).find(...) *)
ResolveApiUrl(outputs) ==
  LET ApiUrl == Get(outputs, <<"A","p","i","U","r","l">>)
      api_url == Get(outputs, <<"a","p","i","_","u","r","l">>)
      endpoint == Get(outputs, <<"e","n","d","p","o","i","n","t">>)
      url == Get(outputs, <<"u","r","l">>)
      ServiceEndpoint == Get(outputs, <<"S","e","r","v","i","c","e","E","n","d","p","o","i","n","t">>)
      HttpApiUrl == Get(outputs, <<"H","t","t","p","A","p","i","U","r","l">>)
  IN IF Truthy(ApiUrl) THEN ApiUrl
     ELSE IF Truthy(api_url) THEN api_url
     ELSE IF Truthy(endpoint) THEN endpoint
     ELSE IF Truthy(url) THEN url
     ELSE IF Truthy(ServiceEndpoint) THEN ServiceEndpoint
     ELSE IF Truthy(HttpApiUrl) THEN HttpApiUrl
     ELSE FindHttp(outputs)

----------------------------------------------------------------------------
(* Inputs of a run of execute-tests.js                                     *)
(*                                                                         *)
(* The files, when present, parse as JSON; the plan is well formed (every  *)
(* suite has a list of steps, every step a method, an endpoint, an integer *)
(* expectedStatus); stack outputs are scalars.  Keys and variable names    *)
(* are identifiers other than __proto__, and no object of a document has a *)
(* member named toString, so that coercing a value to a string never       *)
(* throws.                                                                 *)

MaxSuites == 2

K_userId == <<"u","s","e","r","I","d">>
K_id == <<"i","d">>
K_data == <<"d","a","t","a">>

GET == <<"G","E","T">>
POST == <<"P","O","S","T">>
DELETE == <<"D","E","L","E","T","E">>

Step(method, endpoint, body, expectedStatus, storeVariables) ==
  [method |-> method, endpoint |-> Str(endpoint), body |-> body, headers |-> Undefined,
   expectedStatus |-> expectedStatus, storeVariables |-> storeVariables]

(* create, read with a second capture of the same name, delete *)
CrudSuite ==
  << Step(POST, <<"/","u","s","e","r","s">>,
          Obj(<< << <<"o","w","n","e","r">>, Str(<<"$","{","u","s","e","r","I","d","}">>) >> >>),
          200,
          << <<K_userId, <<"r","e","s","p","o","n","s","e",".","i","d">> >>,
             << <<"n","o","p","e">>, <<"m","i","s","s","i","n","g">> >> >>),
     Step(GET, <<"/","u","s","e","r","s","/","$","{","u","s","e","r","I","d","}">>,
          Undefined, 200,
          << <<K_userId, <<"d","a","t","a",".","i","d">> >> >>),
     Step(DELETE, <<"/","u","s","e","r","s","/","$","{","u","s","e","r","I","d","}">>,
          Arr(<< Str(<<"$","{","u","s","e","r","I","d","}">>),
                 Obj(<< << <<"k","e","y">>, Str(<<"$","{","n","o","p","e","}">>) >> >>) >>),
          404, <<>>) >>

(* uses a name that only another suite captures *)
ReadSuite ==
  << Step(GET, <<"/","u","s","e","r","s","/","$","{","u","s","e","r","I","d","}">>,
          Undefined, 200, <<>>) >>

(* a path naming a property no response body has as its own *)
ProbeSuite ==
  << Step(GET, <<"/","h","e","a","l","t","h">>, Undefined, 200,
          << << <<"c">>, <<"c","o","n","s","t","r","u","c","t","o","r">> >>,
             << K_id, K_id >> >>),
     Step(GET, <<"/","c","/","$","{","c","}">>, Undefined, 200, <<>>) >>

EmptySuite == <<>>

SuitePool == {CrudSuite, ReadSuite, ProbeSuite, EmptySuite}

RECURSIVE SeqsUpTo(_, _)
SeqsUpTo(S, n) ==
  IF n = 0 THEN {<<>>}
  ELSE LET shorter == SeqsUpTo(S, n - 1)
       IN shorter \cup {Append(q, x) : q \in shorter, x \in S}

(* testPlan.tests: each suite is its list of steps *)
PlanPool == SeqsUpTo(SuitePool, MaxSuites)

OutputsPool ==
  { << << <<"A","p","i","U","r","l">>, Str(<<"h","t","t","p",":","/","/","h">>) >> >>,
    << << K_userId, Num(9) >>,
       << <<"G","a","t","e","w","a","y">>, Str(<<"h","t","t","p",":","/","/","g">>) >> >>,
    << << <<"R","e","g","i","o","n">>, Str(<<"u","s">>) >> >> }

Body1 == Obj(<< <<K_id, Num(42)>>, <<K_data, Obj(<< <<K_id, Num(7)>> >>)>> >>)
Body2 == Obj(<< <<K_id, Str(<<"u","1">>)>> >>)

ResponsePool ==
  { Resolved(200, Body1), Resolved(200, Body2), Resolved(404, Body2),
    Rejected(<<"t","i","m","e","o","u","t"," ","o","f"," ","3","0","0","0","0","m","s"," ","e","x","c","e","e","d","e","d">>),
    Rejected(<<"c","o","n","n","e","c","t"," ","E","C","O","N","N","R","E","F","U","S","E","D">>) }

----------------------------------------------------------------------------
(* State of a run of execute-tests.js *)

VARIABLES
  files,         \* [plan, outputs]: each <<>> (file absent) or <<content>>
  pc,            \* where main is
  testPlan,      \* testPlan.tests
  outputs,
  baseUrl,
  totalTests, passedTests, failedTests,
  suiteIdx, stepIdx,      \* positions of the two for-of loops
  variables, suiteSuccess,
  request,       \* <<>> or <<the latest axios request>>
  response,      \* <<>> or <<what the latest axios call did>>
  result,        \* <<>> or <<the latest value executeStep returned>>
  issued,        \* the <<suite, step>> pairs a request was issued for
  results,       \* <<suite, step, value executeStep returned>>, as counted
  warnings,      \* the <<suite, step, name>> "Could not extract" lines
  bound,         \* history: name -> latest value bound in this suite
  suiteLog,      \* the "Suite passed" (TRUE) / "Suite failed" (FALSE) lines
  summary,       \* <<>> or <<[total, passed, failed]>>
  exitCode       \* <<>> or <<code of process.exit>>

execVars ==
  <<files, pc, testPlan, outputs, baseUrl, totalTests, passedTests, failedTests,
    suiteIdx, stepIdx, variables, suiteSuccess, request, response, result,
    issued, results, warnings, bound, suiteLog, summary, exitCode>>

(* State of one application of replaceVariables *)
VARIABLES
  sStr,          \* the str argument
  sVariables,    \* the variables argument
  sOut           \* <<>> or <<the value returned>>

substVars == <<sStr, sVariables, sOut>>

(* State of one resolution of the URL of the API from a mapping of outputs *)
VARIABLES
  uOutputs,      \* the parsed outputs.json
  uBaseUrl,      \* <<>> or <<baseUrl of execute-tests.js>>
  uApiUrl        \* <<>> or <<apiUrl of ai-generate-tests.js>>

urlVars == <<uOutputs, uBaseUrl, uApiUrl>>

(* State of the calls of detect-iac.sh in one directory *)
VARIABLES
  dir,           \* the working directory: file name -> contents
  dCalls         \* what each call so far printed and returned

detectVars == <<dir, dCalls>>

(* State of one application of extractJSON *)
VARIABLES
  xText,         \* the text argument
  xOut           \* <<>> or <<how the call ended>>

extractVars == <<xText, xOut>>

(* State of a run of ai-generate-tests.js (it shares files with the run of *)
(* execute-tests.js that follows it)                                       *)
VARIABLES
  gPc,           \* where main is
  gApiUrl,
  aiCalls,       \* number of calls of callAI
  gResponse,     \* <<>> or <<how callAI settled>>
  gExit          \* <<>> or <<exit status of the process>>

synthVars == <<gPc, gApiUrl, aiCalls, gResponse, gExit>>

(* State of a run of run-deployment.sh *)
VARIABLES
  rdIacType,     \* IAC_TYPE
  rdStackName,   \* STACK_NAME
  rdFiles,       \* names of the files of the working directory
  rdUnchanged,   \* the stack is deployed already and the project unchanged
  rdFaults,      \* a tool may fail for a reason of its own
  rdPc,          \* where the script is
  rdTodo,        \* commands of the chosen branch still to run
  rdRan,         \* commands run so far, each with its exit status
  rdLog,         \* messages logged
  rdExit         \* <<>> or <<exit status of the script>>

deployVars ==
  <<rdIacType, rdStackName, rdFiles, rdUnchanged, rdFaults, rdPc, rdTodo,
    rdRan, rdLog, rdExit>>

(* State of a run of extract-outputs.sh *)
VARIABLES
  eoIacType,     \* $1
  eoStackName,   \* $2
  eoCdkFile,     \* <<>> or <<the document in cdk-outputs.json>>
  eoStateFile,   \* <<>> or <<the document in serverless-state.json>>
  eoAws,         \* what aws cloudformation describe-stacks gives
  eoTerraform,   \* what terraform output -json gives
  eoPc,          \* where the script is
  eoStdout,      \* documents written to standard output
  eoStderr,      \* messages written to standard error
  eoExit         \* <<>> or <<exit status of the script>>

outputsVars ==
  <<eoIacType, eoStackName, eoCdkFile, eoStateFile, eoAws, eoTerraform,
    eoPc, eoStdout, eoStderr, eoExit>>

(* State of a run of ai-generate-plan.js, ai-generate-file.js or *)
(* ai-generate-fix.js                                            *)
VARIABLES
  gnStage,       \* which of the three scripts runs
  gnEnv,         \* the environment variables the script reads
  gnLogs,        \* the log files of logs/ and of the working directory
  gnArtifacts,   \* the artifact files of the working directory
  gnPc,          \* where the script is
  gnAiCalls,     \* number of calls of callAI
  gnResponse,    \* <<>> or <<how callAI settled>>
  gnWrites,      \* names of the files written, in order
  gnError,       \* <<>> or <<message of the error caught>>
  gnExit         \* <<>> or <<exit status of the process>>

generatorVars ==
  <<gnStage, gnEnv, gnLogs, gnArtifacts, gnPc, gnAiCalls, gnResponse,
    gnWrites, gnError, gnExit>>

(* State of one call of callAI *)
VARIABLES
  caEnv,         \* AI_MODEL, AI_API_KEY and AI_ENDPOINT
  caPc,          \* where the call is
  caBackends,    \* the backend functions called, in order
  caOutcome      \* <<>> or <<how the call settled>>

callVars == <<caEnv, caPc, caBackends, caOutcome>>

(* State of the calls of getNestedValue on one response body *)
VARIABLES
  nvObj,         \* the response body
  nvPath,        \* a dotted path
  nvCalls        \* the calls made so far: the path given and what came back

nestedVars == <<nvObj, nvPath, nvCalls>>

(* State of one request to an API route of the Platform Hub *)
VARIABLES
  hbRoute,       \* "scaffold", "sdlc-deploy" or "status"
  hbSession,     \* what getServerSession resolves to
  hbInput,       \* the body or parameters of the request: how they validate
  hbEnv,         \* GITHUB_APP_ID and GITHUB_APP_PRIVATE_KEY are set
  hbIssueNumber, \* the number of the issue GitHub creates or is asked about
  hbPc,          \* where the handler is
  hbRequests,    \* the requests made to the GitHub API, in order
  hbIssues,      \* the numbers of the tracking issues created
  hbDispatched,  \* the workflow dispatches GitHub accepted
  hbResponse     \* <<>> or <<the response of the route>>

hubVars ==
  <<hbRoute, hbSession, hbInput, hbEnv, hbIssueNumber, hbPc, hbRequests,
    hbIssues, hbDispatched, hbResponse>>

(* the stages of the pipeline other than test synthesis and execution *)
stageVars == <<deployVars, outputsVars, generatorVars, callVars, nestedVars, hubVars>>

DeployIdle ==
  /\ rdIacType = ""
  /\ rdStackName = ""
  /\ rdFiles = {}
  /\ rdUnchanged = FALSE
  /\ rdFaults = FALSE
  /\ rdPc = "idle"
  /\ rdTodo = <<>>
  /\ rdRan = <<>>
  /\ rdLog = <<>>
  /\ rdExit = <<>>

OutputsIdle ==
  /\ eoIacType = ""
  /\ eoStackName = ""
  /\ eoCdkFile = <<>>
  /\ eoStateFile = <<>>
  /\ eoAws = <<>>
  /\ eoTerraform = <<>>
  /\ eoPc = "idle"
  /\ eoStdout = <<>>
  /\ eoStderr = <<>>
  /\ eoExit = <<>>

GeneratorIdle ==
  /\ gnStage = "idle"
  /\ gnEnv = <<>>
  /\ gnLogs = <<>>
  /\ gnArtifacts = <<>>
  /\ gnPc = "idle"
  /\ gnAiCalls = 0
  /\ gnResponse = <<>>
  /\ gnWrites = <<>>
  /\ gnError = <<>>
  /\ gnExit = <<>>

CallIdle ==
  /\ caEnv = <<>>
  /\ caPc = "idle"
  /\ caBackends = <<>>
  /\ caOutcome = <<>>

NestedIdle ==
  /\ nvObj = Undefined
  /\ nvPath = <<>>
  /\ nvCalls = <<>>

HubIdle ==
  /\ hbRoute = ""
  /\ hbSession = ""
  /\ hbInput = ""
  /\ hbEnv = FALSE
  /\ hbIssueNumber = 0
  /\ hbPc = "idle"
  /\ hbRequests = <<>>
  /\ hbIssues = {}
  /\ hbDispatched = {}
  /\ hbResponse = <<>>

StageIdle == DeployIdle /\ OutputsIdle /\ GeneratorIdle /\ CallIdle /\ NestedIdle /\ HubIdle

(* the state of the operations modelled on their own *)
extraVars == <<nestedVars, hubVars>>

ExtraIdle == NestedIdle /\ HubIdle

(* what a run of execute-tests.js leaves alone *)
nonExecVars == <<substVars, urlVars, detectVars, extractVars, synthVars,
    stageVars>>

(* what an application of replaceVariables leaves alone *)
nonSubstVars == <<execVars, urlVars, detectVars, extractVars, synthVars,
    stageVars>>

nonUrlVars == <<execVars, substVars, detectVars, extractVars, synthVars,
    stageVars>>

nonDetectVars == <<execVars, substVars, urlVars, extractVars, synthVars,
    stageVars>>

nonExtractVars == <<execVars, substVars, urlVars, detectVars, synthVars,
    stageVars>>

vars == <<execVars, substVars, urlVars, detectVars, extractVars, synthVars,
    stageVars>>

SubstIdle == sStr = Undefined /\ sVariables = <<>> /\ sOut = <<>>

UrlIdle == uOutputs = <<>> /\ uBaseUrl = <<>> /\ uApiUrl = <<>>

DetectIdle == dir = <<>> /\ dCalls = <<>>

ExtractIdle == xText = <<>> /\ xOut = <<>>

SynthIdle ==
  /\ gPc = "idle"
  /\ gApiUrl = Undefined
  /\ aiCalls = 0
  /\ gResponse = <<>>
  /\ gExit = <<>>

ExecInit ==
  /\ files \in
       {[plan |-> <<p>>, outputs |-> <<o>>] : p \in PlanPool, o \in OutputsPool}
       \cup {[plan |-> <<>>, outputs |-> <<o>>] : o \in OutputsPool}
       \cup {[plan |-> <<p>>, outputs |-> <<>>] : p \in {<<ReadSuite>>}}
  /\ pc = "main"
  /\ testPlan = <<>>
  /\ outputs = <<>>
  /\ baseUrl = Undefined
  /\ totalTests = 0
  /\ passedTests = 0
  /\ failedTests = 0
  /\ suiteIdx = 1
  /\ stepIdx = 1
  /\ variables = <<>>
  /\ suiteSuccess = TRUE
  /\ request = <<>>
  /\ response = <<>>
  /\ result = <<>>
  /\ issued = {}
  /\ results = {}
  /\ warnings = {}
  /\ bound = <<>>
  /\ suiteLog = <<>>
  /\ summary = <<>>
  /\ exitCode = <<>>

(* outputs.json parsed, or {} when the file is absent *)
ReadOutputs(f) == IF f.outputs = <<>> THEN <<>> ELSE f.outputs[1]

----------------------------------------------------------------------------
(* main *)

(* sanity-tests.json not found *)
MainNoPlan ==
  /\ pc = "main"
  /\ files.plan = <<>>
  /\ exitCode' = <<1>>
  /\ pc' = "exited"
  /\ UNCHANGED <<files, testPlan, outputs, baseUrl, totalTests, passedTests,
                 failedTests, suiteIdx, stepIdx, variables, suiteSuccess, request,
                 response, result, issued, results, warnings, bound, suiteLog,
                 summary>>
  /\ UNCHANGED nonExecVars

(* No API URL found in outputs.json *)
MainNoBaseUrl ==
  /\ pc = "main"
  /\ files.plan # <<>>
  /\ ~Truthy(ResolveBaseUrl(ReadOutputs(files)))
  /\ testPlan' = files.plan[1]
  /\ outputs' = ReadOutputs(files)
  /\ baseUrl' = ResolveBaseUrl(ReadOutputs(files))
  /\ exitCode' = <<1>>
  /\ pc' = "exited"
  /\ UNCHANGED <<files, totalTests, passedTests, failedTests, suiteIdx, stepIdx,
                 variables, suiteSuccess, request, response, result, issued,
                 results, warnings, bound, suiteLog, summary>>
  /\ UNCHANGED nonExecVars

MainStart ==
  /\ pc = "main"
  /\ files.plan # <<>>
  /\ Truthy(ResolveBaseUrl(ReadOutputs(files)))
  /\ testPlan' = files.plan[1]
  /\ outputs' = ReadOutputs(files)
  /\ baseUrl' = ResolveBaseUrl(ReadOutputs(files))
  /\ totalTests' = 0
  /\ passedTests' = 0
  /\ failedTests' = 0
  /\ suiteIdx' = 1
  /\ pc' = "loop"
  /\ UNCHANGED <<files, stepIdx, variables, suiteSuccess, request, response,
                 result, issued, results, warnings, bound, suiteLog, summary,
                 exitCode>>
  /\ UNCHANGED nonExecVars

(* const variables = { ...outputs } *)
SuiteVariablesShared(outs, previous) == IF previous = <<>> THEN outs ELSE previous

SuiteVariables(outs, previous) == outs

(* the bindings of a key/value list as a function of the name *)
Bindings(o) == [k \in Keys(o) |-> OwnGet(o, k)]

SuiteStart ==
  /\ pc = "loop"
  /\ suiteIdx <= Len(testPlan)
  /\ variables' = SuiteVariables(outputs, variables)
  /\ suiteSuccess' = TRUE
  /\ stepIdx' = 1
  /\ bound' = Bindings(outputs)
  /\ pc' = "steps"
  /\ UNCHANGED <<files, testPlan, outputs, baseUrl, totalTests, passedTests,
                 failedTests, suiteIdx, request, response, result, issued,
                 results, warnings, suiteLog, summary, exitCode>>
  /\ UNCHANGED nonExecVars

CurrentStep == testPlan[suiteIdx][stepIdx]

(* totalTests++ and executeStep up to the awaited axios call *)
StepIssue ==
  /\ pc = "steps"
  /\ stepIdx <= Len(testPlan[suiteIdx])
  /\ totalTests' = totalTests + 1
  /\ request' = <<BuildRequest(CurrentStep, variables, baseUrl)>>
  /\ issued' = issued \cup {<<suiteIdx, stepIdx>>}
  /\ pc' = "await"
  /\ UNCHANGED <<files, testPlan, outputs, baseUrl, passedTests, failedTests,
                 suiteIdx, stepIdx, variables, suiteSuccess, response, result,
                 results, warnings, bound, suiteLog, summary, exitCode>>
  /\ UNCHANGED nonExecVars

(* where main goes after executeStep returned *)
AfterStepNoBreak(success) == "delay"

AfterStepWithoutDelay(success) == IF success THEN "steps" ELSE "suiteEnd"

AfterStep(success) == IF success THEN "delay" ELSE "suiteEnd"

(* passedTests++ / failedTests++ *)
PassedAfter(passed, success) == IF success THEN passed + 1 ELSE passed

FailedAfterCountsTwice(failed, success) == IF success THEN failed ELSE failed + 2

FailedAfterForgets(failed, success) == failed

FailedAfter(failed, success) == IF success THEN failed ELSE failed + 1

(* the names a passing step captures, with their values *)
BoundAfter(b, step, resp) ==
  LET sv == step.storeVariables
      caps == {i \in 1..Len(sv) : getNestedValue(resp.data, sv[i][2]) # Undefined}
      names == {sv[i][1] : i \in caps}
  IN IF StepResult(step, resp).success
     THEN [n \in (DOMAIN b) \cup names |->
             IF n \in names
             THEN getNestedValue(resp.data, sv[CHOOSE i \in caps : sv[i][1] = n][2])
             ELSE b[n]]
     ELSE b

(* the axios call settles; executeStep returns; main counts the result *)
StepSettle ==
  /\ pc = "await"
  /\ \E r \in ResponsePool :
       LET res == StepResult(CurrentStep, r)
       IN /\ response' = <<r>>
          /\ result' = <<res>>
          /\ variables' = VariablesAfter(CurrentStep, variables, r)
          /\ warnings' = warnings \cup
               {<<suiteIdx, stepIdx, n>> : n \in WarningsOf(CurrentStep, r)}
          /\ bound' = BoundAfter(bound, CurrentStep, r)
          /\ results' = results \cup {<<suiteIdx, stepIdx, res>>}
          /\ passedTests' = PassedAfter(passedTests, res.success)
          /\ failedTests' = FailedAfter(failedTests, res.success)
          /\ suiteSuccess' = IF res.success THEN suiteSuccess ELSE FALSE
          /\ pc' = AfterStep(res.success)
  /\ UNCHANGED <<files, testPlan, outputs, baseUrl, totalTests, suiteIdx,
                 stepIdx, request, issued, suiteLog, summary, exitCode>>
  /\ UNCHANGED nonExecVars

(* the 500 ms pause after a passing step *)
DelayElapsed ==
  /\ pc = "delay"
  /\ stepIdx' = stepIdx + 1
  /\ pc' = "steps"
  /\ UNCHANGED <<files, testPlan, outputs, baseUrl, totalTests, passedTests,
                 failedTests, suiteIdx, variables, suiteSuccess, request,
                 response, result, issued, results, warnings, bound, suiteLog,
                 summary, exitCode>>
  /\ UNCHANGED nonExecVars

(* the inner loop ran out of steps *)
StepsDone ==
  /\ pc = "steps"
  /\ stepIdx > Len(testPlan[suiteIdx])
  /\ pc' = "suiteEnd"
  /\ UNCHANGED <<files, testPlan, outputs, baseUrl, totalTests, passedTests,
                 failedTests, suiteIdx, stepIdx, variables, suiteSuccess, request,
                 response, result, issued, results, warnings, bound, suiteLog,
                 summary, exitCode>>
  /\ UNCHANGED nonExecVars

(* the suite the outer loop goes to after suite i of n *)
NextSuite(i, success, n) == i + 1

(* "Suite passed" / "Suite failed", then the next suite *)
SuiteEnd ==
  /\ pc = "suiteEnd"
  /\ suiteLog' = Append(suiteLog, suiteSuccess)
  /\ suiteIdx' = NextSuite(suiteIdx, suiteSuccess, Len(testPlan))
  /\ pc' = "loop"
  /\ UNCHANGED <<files, testPlan, outputs, baseUrl, totalTests, passedTests,
                 failedTests, stepIdx, variables, suiteSuccess, request, response,
                 result, issued, results, warnings, bound, summary, exitCode>>
  /\ UNCHANGED nonExecVars

(* process.exit after the summary *)
ExitStatusAlwaysZero(failed) == 0

ExitStatus(failed) == IF failed > 0 THEN 1 ELSE 0

Summary ==
  /\ pc = "loop"
  /\ suiteIdx > Len(testPlan)
  /\ summary' = <<[total |-> totalTests, passed |-> passedTests, failed |-> failedTests]>>
  /\ exitCode' = <<ExitStatus(failedTests)>>
  /\ pc' = "exited"
  /\ UNCHANGED <<files, testPlan, outputs, baseUrl, totalTests, passedTests,
                 failedTests, suiteIdx, stepIdx, variables, suiteSuccess, request,
                 response, result, issued, results, warnings, bound, suiteLog>>
  /\ UNCHANGED nonExecVars

ExecNext ==
  \/ MainNoPlan
  \/ MainNoBaseUrl
  \/ MainStart
  \/ SuiteStart
  \/ StepIssue
  \/ StepSettle
  \/ DelayElapsed
  \/ StepsDone
  \/ SuiteEnd
  \/ Summary

Init == ExecInit /\ SubstIdle /\ UrlIdle /\ DetectIdle /\ ExtractIdle /\ SynthIdle
  /\ StageIdle

Next == ExecNext

Spec == Init /\ [][Next]_vars

----------------------------------------------------------------------------
(* One application of replaceVariables to an arbitrary argument *)

MaxLen == 4

SubstAlphabet == {"$", "{", "}", "a", "b"}

RECURSIVE StringsUpTo(_)
StringsUpTo(n) == SeqsUpTo(SubstAlphabet, n)

SubstTemplates ==
  { <<"/","u","s","e","r","s","/","$","{","u","s","e","r","I","d","}">>,
    <<"$","{","m","i","s","s","i","n","g","}">>,
    <<"$","{","c","o","n","s","t","r","u","c","t","o","r","}">>,
    <<"$","{","a","}","/","$","{","m","i","s","s","i","n","g","}","/","$","{","b","}">> }

SubstArguments ==
  {Str(x) : x \in StringsUpTo(MaxLen) \cup SubstTemplates} \cup {Num(5), Null, Undefined}

SubstVariablesPool ==
  { <<>>,
    << << <<"a">>, Str(<<"b">>) >> >>,
    << << <<"a">>, Num(42) >>, << <<"b">>, Str(<<"$","{","a","}">>) >> >>,
    << << K_userId, Num(42) >> >> }

ExecIdle ==
  /\ files = [plan |-> <<>>, outputs |-> <<>>]
  /\ pc = "idle"
  /\ testPlan = <<>>
  /\ outputs = <<>>
  /\ baseUrl = Undefined
  /\ totalTests = 0
  /\ passedTests = 0
  /\ failedTests = 0
  /\ suiteIdx = 1
  /\ stepIdx = 1
  /\ variables = <<>>
  /\ suiteSuccess = TRUE
  /\ request = <<>>
  /\ response = <<>>
  /\ result = <<>>
  /\ issued = {}
  /\ results = {}
  /\ warnings = {}
  /\ bound = <<>>
  /\ suiteLog = <<>>
  /\ summary = <<>>
  /\ exitCode = <<>>

SubstInit ==
  /\ sStr \in SubstArguments
  /\ sVariables \in SubstVariablesPool
  /\ sOut = <<>>

ApplyReplaceVariables ==
  /\ sOut = <<>>
  /\ sOut' = <<replaceVariables(sStr, sVariables)>>
  /\ UNCHANGED <<sStr, sVariables, nonSubstVars>>

InitSubst == SubstInit /\ ExecIdle /\ UrlIdle /\ DetectIdle /\ ExtractIdle /\ SynthIdle
  /\ StageIdle

SpecSubst == InitSubst /\ [][ApplyReplaceVariables]_vars

----------------------------------------------------------------------------
(* Properties of the test execution engine *)

SuiteOf(s) == testPlan[s]

Failed(s, k) == \E t \in results : t[1] = s /\ t[2] = k /\ ~t[3].success
Passed(s, k) == \E t \in results : t[1] = s /\ t[2] = k /\ t[3].success

(* the run got past the summary *)
Summarised == pc = "exited" /\ summary # <<>>

(* C1: within a suite no request is issued and no result is counted for a  *)
(* step after the first failing one, steps are issued in order from the    *)
(* first, and when the run ends every suite with steps has had its first   *)
(* step issued, whatever happened in the suites before it.                 *)
C1_ShortCircuit ==
  /\ \A t \in results : \A q \in issued :
       (~t[3].success /\ q[1] = t[1]) => q[2] <= t[2]
  /\ \A t \in results : \A u \in results :
       (~t[3].success /\ u[1] = t[1]) => u[2] <= t[2]
  /\ \A q \in issued : q[2] = 1 \/ Passed(q[1], q[2] - 1)
  /\ Summarised =>
       \A s \in 1..Len(testPlan) : SuiteOf(s) # <<>> => <<s, 1>> \in issued

(* a three-step suite failed at its second step and the next suite ran *)
C1_Witness ==
  /\ Summarised
  /\ Len(testPlan) = 2
  /\ Len(SuiteOf(1)) = 3
  /\ Passed(1, 1)
  /\ Failed(1, 2)
  /\ <<1, 3>> \notin issued
  /\ Passed(2, 1)

(* C2: when a suite is about to run its first step, variables is exactly   *)
(* the stack outputs, and the request of the first step is the one the     *)
(* stack outputs alone give.                                               *)
C2_FreshVariables ==
  /\ (pc = "steps" /\ stepIdx = 1) => variables = outputs
  /\ (pc = "await" /\ stepIdx = 1) =>
       request = <<BuildRequest(CurrentStep, outputs, baseUrl)>>

(* the second suite starts after the first one captured userId, and uses   *)
(* that name                                                               *)
C2_Witness ==
  /\ pc = "await"
  /\ suiteIdx = 2
  /\ stepIdx = 1
  /\ SuiteOf(1) = CrudSuite
  /\ Passed(1, 2)
  /\ SuiteOf(2) = ReadSuite
  /\ ~HasOwn(outputs, K_userId)
  /\ request[1].url = <<"h","t","t","p",":","/","/","h","/","u","s","e","r","s","/","$","{","u","s","e","r","I","d","}">>

(* Substitution as the specification words it, over a function b from      *)
(* names to values: a placeholder whose name b binds becomes the text of   *)
(* the bound value.  A placeholder of any other name is left as it is, or, *)
(* with inherited = TRUE, becomes what an empty variables object gives.    *)
RECURSIVE RefReplaceFrom(_, _, _, _)
RefReplaceFrom(s, i, b, inherited) ==
  IF i > Len(s) THEN <<>>
  ELSE IF MatchAt(s, i)
  THEN LET e == WordRunEnd(s, i + 2)
           name == SubSeq(s, i + 2, e - 1)
       IN (IF name \in DOMAIN b THEN ToStr(b[name])
           ELSE IF inherited /\ HasOwn(ObjectPrototype, name)
           THEN ToStr(OwnGet(ObjectPrototype, name))
           ELSE SubSeq(s, i, e))
          \o RefReplaceFrom(s, e + 1, b, inherited)
  ELSE <<s[i]>> \o RefReplaceFrom(s, i + 1, b, inherited)

RECURSIVE RefReplaceValue(_, _, _)
RefReplaceValue(v, b, inherited) ==
  CASE v.t = "str" -> Str(RefReplaceFrom(v.s, 1, b, inherited))
    [] v.t = "arr" -> Arr([i \in 1..Len(v.a) |-> RefReplaceValue(v.a[i], b, inherited)])
    [] v.t = "obj" ->
         Obj([i \in 1..Len(v.o) |-> <<v.o[i][1], RefReplaceValue(v.o[i][2], b, inherited)>>])
    [] OTHER -> v

(* the request the bindings b call for *)
RequestFor(step, b) ==
  /\ request # <<>>
  /\ request[1].url = ToStr(baseUrl) \o RefReplaceFrom(step.endpoint.s, 1, b, TRUE)
  /\ request[1].data = IF Truthy(step.body)
                       THEN RefReplaceValue(step.body, b, TRUE)
                       ELSE Undefined

(* the awaited request is the one the history of captures calls for *)
C3_Inv == pc = "await" => RequestFor(CurrentStep, bound)

(* C3: the request of every step is built, in its endpoint and throughout  *)
(* its body, from the latest value captured for each name by the earlier   *)
(* passing steps of the same suite (and, for names never captured, from    *)
(* the stack outputs); the captures of a step do not alter that step's own *)
(* request, which is fixed while its response is awaited.                  *)
C3_CapturedUsed == []C3_Inv /\ [][pc = "await" => request' = request]_vars

(* the third step of the CRUD suite is sent with the second capture of     *)
(* userId (7), not the first (42) and not the stack output (9)             *)
C3_Witness ==
  /\ pc = "await"
  /\ SuiteOf(suiteIdx) = CrudSuite
  /\ stepIdx = 3
  /\ HasOwn(outputs, K_userId)
  /\ Passed(suiteIdx, 1)
  /\ variables[1] = <<K_userId, Num(7)>>
  /\ request[1].url = <<"h","t","t","p",":","/","/","g","/","u","s","e","r","s","/","7">>
  /\ request[1].data =
       Arr(<< Str(<<"7">>), Obj(<< << <<"k","e","y">>, Str(<<"$","{","n","o","p","e","}">>) >> >>) >>)

(* executeStep has just returned for CurrentStep and main has counted it *)
JustSettled ==
  \/ pc = "delay"
  \/ pc = "suiteEnd" /\ stepIdx <= Len(SuiteOf(suiteIdx))

(* the text after the last ": " of an error message *)
RECURSIVE AfterColon(_)
AfterColon(m) ==
  IF \E i \in 1..(Len(m) - 1) : m[i] = ":" /\ m[i + 1] = " "
  THEN AfterColon(SubSeq(m, 2, Len(m)))
  ELSE SubSeq(m, 2, Len(m))

(* C5: the step just executed is recorded as passed exactly when the       *)
(* request resolved with the expected status, whatever that status is; a   *)
(* resolved request with another status is recorded as failed with an      *)
(* error that ends in the observed status, and the counters follow.        *)
C5_PassIffExpectedStatus ==
  JustSettled =>
    LET r == response[1]
        expected == CurrentStep.expectedStatus
    IN /\ result[1].success <=> (r.kind = "resolved" /\ r.status = expected)
       /\ <<suiteIdx, stepIdx, result[1]>> \in results
       /\ (r.kind = "resolved" /\ r.status # expected) =>
            /\ result[1].error.t = "str"
            /\ IsIndex(AfterColon(result[1].error.s))
            /\ DecVal(AfterColon(result[1].error.s), 0) = r.status
       /\ pc = (IF r.kind = "resolved" /\ r.status = expected THEN "delay" ELSE "suiteEnd")

(* a step expecting 404 passed on a 404, after a 200 passed a step         *)
(* expecting 200                                                           *)
C5_Witness ==
  /\ pc = "delay"
  /\ CurrentStep.expectedStatus = 404
  /\ response[1].status = 404
  /\ result[1].success
  /\ passedTests = 3

(* a 200 failed a step expecting 404 *)
C5_WitnessMismatch ==
  /\ pc = "suiteEnd"
  /\ JustSettled
  /\ CurrentStep.expectedStatus = 404
  /\ response[1].kind = "resolved"
  /\ response[1].status = 200
  /\ ~result[1].success

RejectionOf(t) == t[3].error.t = "str" /\ \E r \in ResponsePool :
                    r.kind = "rejected" /\ r.data = t[3].error

(* what main does when the awaited request is rejected *)
C6_RejectionStep ==
  (pc = "await" /\ pc' # "await" /\ response'[1].kind = "rejected") =>
    /\ result'[1] = [success |-> FALSE, error |-> response'[1].data]
    /\ failedTests' = failedTests + 1
    /\ passedTests' = passedTests
    /\ pc' = "suiteEnd"
    /\ exitCode' = <<>>
    /\ <<suiteIdx, stepIdx, result'[1]>> \in results'

(* how a run that recorded a rejection ends *)
C6_RejectionRun ==
  (pc = "exited" /\ \E t \in results : RejectionOf(t)) =>
    /\ summary # <<>>
    /\ summary[1].failed >= Cardinality({t \in results : RejectionOf(t)})
    /\ Len(suiteLog) = Len(testPlan)
    /\ \A s \in 1..Len(testPlan) : SuiteOf(s) # <<>> => <<s, 1>> \in issued

(* C6: a rejected request is a failed step: it adds one to failedTests and *)
(* nothing to passedTests, its message is the recorded error, it ends its  *)
(* suite and not the process; and a run that has recorded a rejection      *)
(* still ends with the summary, every suite logged and every suite with    *)
(* steps started.                                                          *)
C6_RejectionIsFailure == [][C6_RejectionStep]_vars /\ []C6_RejectionRun

(* the first suite ended on a timeout and the second suite ran *)
C6_Witness ==
  /\ pc = "exited"
  /\ \E t \in results :
       /\ t[1] = 1
       /\ t[3].error = Str(<<"t","i","m","e","o","u","t"," ","o","f"," ","3","0","0","0","0","m","s"," ","e","x","c","e","e","d","e","d">>)
  /\ Passed(2, 1)
  /\ summary[1].failed = 1

(* A dotted path into a JSON document as the specification words it: the   *)
(* optional leading "response." is dropped and every segment must be a     *)
(* member the document itself has.  <<>> when the path does not exist,     *)
(* <<value>> when it does.                                                 *)
RECURSIVE RefWalk(_, _, _)
RefWalk(value, parts, i) ==
  IF i > Len(parts) THEN <<value>>
  ELSE IF value.t = "obj" /\ HasOwn(value.o, parts[i])
  THEN RefWalk(OwnGet(value.o, parts[i]), parts, i + 1)
  ELSE IF value.t = "arr" /\ IsIndex(parts[i]) /\ DecVal(parts[i], 0) < Len(value.a)
  THEN RefWalk(value.a[DecVal(parts[i], 0) + 1], parts, i + 1)
  ELSE <<>>

RefPath(body, path) == RefWalk(body, Split(StripResponse(path)), 1)

(* the own binding of a name, <<>> when there is none *)
BindingOf(o, name) == IF HasOwn(o, name) THEN <<OwnGet(o, name)>> ELSE <<>>

C7_Entry(name, path) ==
  IF RefPath(response'[1].data, path) = <<>>
  THEN /\ <<suiteIdx, stepIdx, name>> \in warnings'
       /\ BindingOf(variables', name) = BindingOf(variables, name)
  ELSE BindingOf(variables', name) = RefPath(response'[1].data, path)

C7_Step ==
  (pc = "await" /\ pc' # "await" /\ response'[1].kind = "resolved"
   /\ response'[1].status = CurrentStep.expectedStatus) =>
    /\ result'[1].success
    /\ passedTests' = passedTests + 1
    /\ pc' = "delay"
    /\ \A i \in 1..Len(CurrentStep.storeVariables) :
         C7_Entry(CurrentStep.storeVariables[i][1], CurrentStep.storeVariables[i][2])

(* C7: a step whose status matches counts as passed whatever its           *)
(* storeVariables paths resolve to; for each declared variable whose path  *)
(* does not exist in the response body a warning is logged and the         *)
(* variable keeps the binding (or the absence of one) it had, and each     *)
(* declared variable whose path exists is bound to the value there.        *)
C7_MissingPathWarns == [][C7_Step]_vars

(* the same statement for the steps whose paths name no member inherited   *)
(* from Object.prototype                                                   *)
C7_ExceptInherited ==
  [][(pc = "await" /\ \A i \in 1..Len(CurrentStep.storeVariables) :
        \A j \in 1..Len(Split(CurrentStep.storeVariables[i][2])) :
          ~HasOwn(ObjectPrototype, Split(CurrentStep.storeVariables[i][2])[j]))
     => C7_Step]_vars

(* the first step of the CRUD suite passed, userId was stored and the      *)
(* missing path of nope was warned about                                   *)
C7_Seen ==
  /\ pc = "delay"
  /\ SuiteOf(suiteIdx) = CrudSuite
  /\ stepIdx = 1
  /\ <<suiteIdx, 1, <<"n","o","p","e">> >> \in warnings
  /\ ~HasOwn(variables, <<"n","o","p","e">>)
  /\ BindingOf(variables, K_userId) = <<Num(42)>>

(* the steps of the plan that were never executed *)
SkippedSteps ==
  UNION {{<<s, k>> : k \in 1..Len(SuiteOf(s))} : s \in 1..Len(testPlan)} \ issued

(* C8 as stated: total = passed + failed at every point of a run, and at   *)
(* the end total is the number of steps executed.                          *)
C8_BalancedAtEveryPoint ==
  /\ totalTests = passedTests + failedTests
  /\ Summarised => summary[1].total = Cardinality(issued)

(* C8 as amended: total = passed + failed whenever no step is in progress, *)
(* and total = passed + failed + 1 while a step's request is awaited; the  *)
(* counters are the numbers of steps issued, passed and failed, and the    *)
(* summary reports them, so a skipped step is counted nowhere.             *)
C8_BalancedBetweenSteps ==
  /\ pc # "await" => totalTests = passedTests + failedTests
  /\ pc = "await" => totalTests = passedTests + failedTests + 1
  /\ totalTests = Cardinality(issued)
  /\ passedTests = Cardinality({t \in results : t[3].success})
  /\ failedTests = Cardinality({t \in results : ~t[3].success})
  /\ Summarised =>
       /\ summary[1] = [total |-> totalTests, passed |-> passedTests,
                        failed |-> failedTests]
       /\ summary[1].total = summary[1].passed + summary[1].failed
       /\ \A q \in SkippedSteps : \A t \in results : <<t[1], t[2]>> # q

(* a run ended with steps passed, a step failed and steps skipped *)
C8_Witness ==
  /\ Summarised
  /\ summary[1].passed >= 1
  /\ summary[1].failed >= 1
  /\ SkippedSteps # {}

(* C9: the process exits with 0 only through the summary, after every      *)
(* suite has been logged, and then with 0 exactly when no step failed and  *)
(* with 1 otherwise; once a step has run the process does not exit before  *)
(* the last suite has been processed.                                      *)
C9_ExitAfterAllSuites ==
  /\ exitCode # <<>> => pc = "exited" /\ exitCode[1] \in {0, 1}
  /\ (exitCode # <<>> /\ (issued # {} \/ exitCode[1] = 0)) =>
       /\ summary # <<>>
       /\ Len(suiteLog) = Len(testPlan)
       /\ suiteIdx = Len(testPlan) + 1
  /\ Summarised =>
       /\ exitCode[1] = 0 <=> summary[1].failed = 0
       /\ exitCode[1] = 0 <=> \A t \in results : t[3].success
       /\ exitCode[1] = 1 <=> \E i \in 1..Len(suiteLog) : ~suiteLog[i]
  /\ (\E t \in results : ~t[3].success) /\ Len(suiteLog) < Len(testPlan) =>
       exitCode = <<>>

(* the first suite failed, the second passed, and the exit status is 1 *)
C9_Witness ==
  /\ Summarised
  /\ suiteLog = <<FALSE, TRUE>>
  /\ Passed(2, 1)
  /\ exitCode = <<1>>

(* every suite passed and the exit status is 0 *)
C9_WitnessZero ==
  /\ Summarised
  /\ suiteLog = <<TRUE, TRUE>>
  /\ summary[1].total >= 2
  /\ exitCode = <<0>>

(* a base URL can be resolved from the outputs file: a conventional key    *)
(* with a non-empty value, or some string value that begins with http      *)
UrlResolvable(f) ==
  /\ f.outputs # <<>>
  /\ \/ \E i \in 1..Len(ConventionalKeys) :
          /\ HasOwn(f.outputs[1], ConventionalKeys[i])
          /\ Truthy(OwnGet(f.outputs[1], ConventionalKeys[i]))
     \/ \E i \in 1..Len(f.outputs[1]) : startsWithHttp(f.outputs[1][i][2])

(* the process ended without running a suite and without a summary *)
Fatal == pc = "exited" /\ summary = <<>>

C10_WitnessNoPlan ==
  /\ Fatal
  /\ files.plan = <<>>
  /\ UrlResolvable(files)

----------------------------------------------------------------------------
(* Properties of replaceVariables *)

(* the names of the placeholders of s, from position i on *)
RECURSIVE PlaceholderNames(_, _)
PlaceholderNames(s, i) ==
  IF i > Len(s) THEN {}
  ELSE IF MatchAt(s, i)
  THEN {SubSeq(s, i + 2, WordRunEnd(s, i + 2) - 1)}
       \cup PlaceholderNames(s, WordRunEnd(s, i + 2) + 1)
  ELSE PlaceholderNames(s, i + 1)

(* C4: replaceVariables returns str with every placeholder whose name is a *)
(* key of variables replaced by the text of its value and every other      *)
(* placeholder left as it is; in particular a string none of whose         *)
(* placeholders names a key of variables is returned unchanged.            *)
C4_ReplaceOwnKeysOnly ==
  (sOut # <<>> /\ sStr.t = "str") =>
    /\ sOut[1] = Str(RefReplaceFrom(sStr.s, 1, Bindings(sVariables), FALSE))
    /\ (PlaceholderNames(sStr.s, 1) \cap Keys(sVariables) = {} => sOut[1] = sStr)

(* the same statement for the names Object.prototype does not define *)
C4_ExceptInherited ==
  (sOut # <<>> /\ sStr.t = "str"
   /\ PlaceholderNames(sStr.s, 1) \cap Keys(ObjectPrototype) = {}) =>
    sOut[1] = Str(RefReplaceFrom(sStr.s, 1, Bindings(sVariables), FALSE))

----------------------------------------------------------------------------
(* One resolution of the URL by each of the two scripts that read          *)
(* outputs.json                                                            *)

MaxOutputs == 2

K_ApiUrl == ConventionalKeys[1]
K_url == ConventionalKeys[4]
K_Region == <<"R","e","g","i","o","n">>
K_Gateway == <<"G","a","t","e","w","a","y">>

UrlKeys == {ConventionalKeys[i] : i \in 1..Len(ConventionalKeys)} \cup {K_Region, K_Gateway}

UrlValues ==
  { Str(<<"h","t","t","p",":","/","/","a">>),
    Str(<<"h","t","t","p","s",":","/","/","b">>),
    Str(<<"u","s">>),
    Str(<<>>) }

(* the mappings of at most n outputs with distinct keys, in every order *)
RECURSIVE MappingsUpTo(_)
MappingsUpTo(n) ==
  IF n = 0 THEN {<<>>}
  ELSE LET shorter == MappingsUpTo(n - 1)
       IN shorter \cup {Append(o, <<k, v>>) :
                          o \in shorter, k \in UrlKeys, v \in UrlValues}

UrlOutputsPool == {o \in MappingsUpTo(MaxOutputs) : Cardinality(Keys(o)) = Len(o)}

UrlInit ==
  /\ uOutputs \in UrlOutputsPool
  /\ uBaseUrl = <<>>
  /\ uApiUrl = <<>>

(* execute-tests.js computes baseUrl *)
ExecResolves ==
  /\ uBaseUrl = <<>>
  /\ uBaseUrl' = <<ResolveBaseUrl(uOutputs)>>
  /\ UNCHANGED <<uOutputs, uApiUrl, nonUrlVars>>

(* ai-generate-tests.js computes apiUrl *)
SynthResolves ==
  /\ uApiUrl = <<>>
  /\ uApiUrl' = <<ResolveApiUrl(uOutputs)>>
  /\ UNCHANGED <<uOutputs, uBaseUrl, nonUrlVars>>

UrlNext == ExecResolves \/ SynthResolves

InitUrl == UrlInit /\ ExecIdle /\ SubstIdle /\ DetectIdle /\ ExtractIdle /\ SynthIdle
  /\ StageIdle

SpecUrl == InitUrl /\ [][UrlNext]_vars

----------------------------------------------------------------------------
(* Properties of the URL resolution *)

Min(S) == CHOOSE x \in S : \A y \in S : x <= y

(* the positions, in the conventional order, of the keys the mapping has *)
PresentKeys(o) == {i \in 1..Len(ConventionalKeys) : HasOwn(o, ConventionalKeys[i])}

(* ... and of those whose value is neither empty nor otherwise falsy *)
UsableKeys(o) == {i \in PresentKeys(o) : Truthy(OwnGet(o, ConventionalKeys[i]))}

HttpValues(o) ==
  {i \in 1..Len(o) :
     o[i][2].t = "str" /\ Len(o[i][2].s) >= 4
     /\ \A c \in 1..4 : o[i][2].s[c] = <<"h","t","t","p">>[c]}

FirstHttpValue(o) == IF HttpValues(o) = {} THEN Undefined ELSE o[Min(HttpValues(o))][2]

FirstPresent(o) ==
  IF PresentKeys(o) # {} THEN OwnGet(o, ConventionalKeys[Min(PresentKeys(o))])
  ELSE FirstHttpValue(o)

FirstUsable(o) ==
  IF UsableKeys(o) # {} THEN OwnGet(o, ConventionalKeys[Min(UsableKeys(o))])
  ELSE FirstHttpValue(o)

Resolutions == {r[1] : r \in {uBaseUrl, uApiUrl} \ {<<>>}}

(* C11, as stated: both scripts resolve the URL to the value of the first  *)
(* conventional key the outputs have, and to the first value that is a     *)
(* string beginning with http only when they have none of these keys.      *)
C11_FirstPresentKey == \A r \in Resolutions : r = FirstPresent(uOutputs)

(* C11, amended: both scripts resolve the URL to the value of the first    *)
(* conventional key whose value is truthy (a key that is present with an   *)
(* empty value is passed over), and to the first value that is a string    *)
(* beginning with http only when no conventional key has such a value.     *)
C11_FirstUsableKey == \A r \in Resolutions : r = FirstUsable(uOutputs)

(* an empty ApiUrl was passed over in favour of url *)
C11_Witness ==
  /\ uBaseUrl # <<>> /\ uApiUrl # <<>>
  /\ HasOwn(uOutputs, K_ApiUrl) /\ OwnGet(uOutputs, K_ApiUrl) = Str(<<>>)
  /\ HasOwn(uOutputs, K_url)
  /\ uBaseUrl[1] = OwnGet(uOutputs, K_url)
  /\ uApiUrl[1] = OwnGet(uOutputs, K_url)
  /\ Truthy(uBaseUrl[1])

----------------------------------------------------------------------------
(* scripts/detect-iac.sh                                                   *)
(*                                                                         *)
(* A directory maps the names of its regular files to their contents.      *)

F_template_yaml == <<"t","e","m","p","l","a","t","e",".","y","a","m","l">>
F_template_yml == <<"t","e","m","p","l","a","t","e",".","y","m","l">>
F_cdk_json == <<"c","d","k",".","j","s","o","n">>
F_serverless_yml == <<"s","e","r","v","e","r","l","e","s","s",".","y","m","l">>
F_serverless_yaml == <<"s","e","r","v","e","r","l","e","s","s",".","y","a","m","l">>
F_main_tf == <<"m","a","i","n",".","t","f">>
F_cloudformation_yaml == <<"c","l","o","u","d","f","o","r","m","a","t","i","o","n",".","y","a","m","l">>
F_cloudformation_yml == <<"c","l","o","u","d","f","o","r","m","a","t","i","o","n",".","y","m","l">>
F_stack_yaml == <<"s","t","a","c","k",".","y","a","m","l">>
F_stack_yml == <<"s","t","a","c","k",".","y","m","l">>
F_index_js == <<"i","n","d","e","x",".","j","s">>
F_index_ts == <<"i","n","d","e","x",".","t","s">>
F_package_json == <<"p","a","c","k","a","g","e",".","j","s","o","n">>

(* [ -f name ] *)
IsFile(d, name) == name \in DOMAIN d

(* grep -q pattern file, for a pattern without metacharacters *)
Grep(pattern, content) ==
  \E i \in 1..(Len(content) - Len(pattern) + 1) :
    SubSeq(content, i, i + Len(pattern) - 1) = pattern

(* the names the glob *.tf expands to *)
GlobTf(d) ==
  {name \in DOMAIN d :
     /\ Len(name) >= 3
     /\ SubSeq(name, Len(name) - 2, Len(name)) = <<".","t","f">>
     /\ name[1] # "."}

(* $([ -f "template.yaml" ] && echo "template.yaml" || echo "template.yml") *)
TemplateFile(d) ==
  IF IsFile(d, F_template_yaml) THEN F_template_yaml ELSE F_template_yml

IsSamNever(d) == FALSE

IsSam(d) ==
  /\ IsFile(d, F_template_yaml) \/ IsFile(d, F_template_yml)
  /\ Grep(<<"A","W","S",":",":","S","e","r","v","e","r","l","e","s","s">>, d[TemplateFile(d)])

IsCdkNever(d) == FALSE

IsCdk(d) == IsFile(d, F_cdk_json)

IsServerless(d) == IsFile(d, F_serverless_yml) \/ IsFile(d, F_serverless_yaml)

IsTerraform(d) == GlobTf(d) # {}

IsCloudFormation(d) ==
  \/ IsFile(d, F_cloudformation_yaml) \/ IsFile(d, F_cloudformation_yml)
  \/ IsFile(d, F_stack_yaml) \/ IsFile(d, F_stack_yml)

IsLambdaWithoutManifest(d) == IsFile(d, F_index_js) \/ IsFile(d, F_index_ts)

IsLambda(d) ==
  /\ (IsFile(d, F_index_js) \/ IsFile(d, F_index_ts)) /\ IsFile(d, F_package_json)
  /\ ~IsFile(d, F_cdk_json)

IsPlainTemplate(d) == IsFile(d, F_template_yaml) \/ IsFile(d, F_template_yml)

(* echo kind; exit status *)
Detected(kind) == [kind |-> kind, exit |-> 0]

NotDetectedSucceeds == [kind |-> "unknown", exit |-> 0]

NotDetected == [kind |-> "unknown", exit |-> 1]

detect(d) ==
  IF IsSam(d) THEN Detected("sam")
  ELSE IF IsCdk(d) THEN Detected("cdk")
  ELSE IF IsServerless(d) THEN Detected("serverless")
  ELSE IF IsTerraform(d) THEN Detected("terraform")
  ELSE IF IsCloudFormation(d) THEN Detected("cloudformation")
  ELSE IF IsLambda(d) THEN Detected("lambda")
  ELSE IF IsPlainTemplate(d) THEN Detected("cloudformation")
  ELSE NotDetected

DirAfterDetectLeavesMarker(d) ==
  [name \in DOMAIN d \cup {F_cdk_json} |-> IF name \in DOMAIN d THEN d[name] ELSE <<>>]

(* the directory after a call: the script reads, and writes only to its    *)
(* standard output and standard error                                      *)
DirAfterDetect(d) == d

(* Inputs: every combination of the marker files; a template holds the SAM *)
(* transform or not, the contents of the other files are not looked at.    *)
MaxCalls == 2

MarkerFiles ==
  {F_template_yaml, F_template_yml, F_cdk_json, F_serverless_yml, F_serverless_yaml,
   F_main_tf, F_cloudformation_yaml, F_cloudformation_yml, F_stack_yaml, F_stack_yml,
   F_index_js, F_index_ts, F_package_json}

SamTemplate == <<"T","r","a","n","s","f","o","r","m",":"," ","A","W","S",":",":","S","e","r","v","e","r","l","e","s","s","-","2","0","1","6","-","1","0","-","3","1">>
PlainTemplate == <<"R","e","s","o","u","r","c","e","s",":"," ","{","}">>

TemplateContents == {SamTemplate, PlainTemplate}

DirPool ==
  {[name \in S |-> IF name = F_template_yaml THEN y
                   ELSE IF name = F_template_yml THEN m
                   ELSE <<>>] :
     S \in SUBSET MarkerFiles, y \in TemplateContents, m \in TemplateContents}

DetectInit ==
  /\ dir \in DirPool
  /\ dCalls = <<>>

(* one run of the script *)
Detect ==
  /\ Len(dCalls) < MaxCalls
  /\ dCalls' = Append(dCalls, detect(dir))
  /\ dir' = DirAfterDetect(dir)
  /\ UNCHANGED nonDetectVars

InitDetect ==
  DetectInit /\ ExecIdle /\ SubstIdle /\ UrlIdle /\ ExtractIdle /\ SynthIdle
  /\ StageIdle

SpecDetect == InitDetect /\ [][Detect]_vars

----------------------------------------------------------------------------
(* Properties of the deployment-type detector *)

Names == DOMAIN dir

HasAny(S) == Names \cap S # {}

Templates == {F_template_yaml, F_template_yml}

(* the templates that hold the SAM transform *)
SamTemplates == {t \in Names \cap Templates : dir[t] = SamTemplate}

(* the template the script looks into: template.yaml when there is one *)
PreferredTemplate ==
  IF F_template_yaml \in Names THEN {F_template_yaml} ELSE Names \cap {F_template_yml}

(* rules 2 to 8 of the ordered chain, for the directory at hand *)
ChainFromCdk ==
  IF F_cdk_json \in Names THEN "cdk"
  ELSE IF HasAny({F_serverless_yml, F_serverless_yaml}) THEN "serverless"
  ELSE IF HasAny({F_main_tf}) THEN "terraform"
  ELSE IF HasAny({F_cloudformation_yaml, F_cloudformation_yml, F_stack_yaml, F_stack_yml})
       THEN "cloudformation"
  ELSE IF HasAny({F_index_js, F_index_ts}) /\ F_package_json \in Names
          /\ F_cdk_json \notin Names
       THEN "lambda"
  ELSE IF HasAny(Templates) THEN "cloudformation"
  ELSE "failure"

(* a call agrees with the kind the chain gives *)
Agrees(c, kind) ==
  IF kind = "failure" THEN c.exit # 0 ELSE c = [kind |-> kind, exit |-> 0]

C13_WitnessLambda ==
  /\ Names = {F_index_js, F_package_json}
  /\ dCalls # <<>>
  /\ dCalls[1] = [kind |-> "lambda", exit |-> 0]

(* C14: in a directory with cdk.json and a *.tf file and no SAM template,  *)
(* every call returns cdk, whatever other marker files are present.        *)
C14_CdkBeforeTerraform ==
  (F_cdk_json \in Names /\ F_main_tf \in Names /\ SamTemplates = {})
    => \A i \in 1..Len(dCalls) : dCalls[i] = [kind |-> "cdk", exit |-> 0]

C14_Witness ==
  /\ MarkerFiles \ Templates \subseteq Names
  /\ SamTemplates = {}
  /\ dCalls # <<>>
  /\ dCalls[1].kind = "cdk"

(* C15: in a directory whose template.yaml contains AWS::Serverless, every *)
(* call returns sam, whatever other marker files are present.              *)
C15_SamBeforeAll ==
  (F_template_yaml \in Names /\ dir[F_template_yaml] = SamTemplate)
    => \A i \in 1..Len(dCalls) : dCalls[i] = [kind |-> "sam", exit |-> 0]

C15_Witness ==
  /\ Names = MarkerFiles
  /\ dir[F_template_yaml] = SamTemplate
  /\ dCalls # <<>>
  /\ dCalls[1].kind = "sam"

NoRuleMatches ==
  /\ ~HasAny(Templates \cup {F_cdk_json, F_serverless_yml, F_serverless_yaml, F_main_tf,
             F_cloudformation_yaml, F_cloudformation_yml, F_stack_yaml, F_stack_yml})
  /\ ~(HasAny({F_index_js, F_index_ts}) /\ F_package_json \in Names)

(* C17: when no rule matches, a call prints unknown and returns a non-zero *)
(* status; a call that returns 0 has printed one of the six kinds.         *)
C17_UnknownFails ==
  \A i \in 1..Len(dCalls) :
    /\ NoRuleMatches => dCalls[i].kind = "unknown" /\ dCalls[i].exit # 0
    /\ dCalls[i].exit = 0 =>
         dCalls[i].kind \in {"sam", "cdk", "serverless", "terraform", "cloudformation", "lambda"}

(* index.js without package.json is no lambda *)
C17_Witness ==
  /\ Names = {F_index_js}
  /\ dCalls # <<>>
  /\ dCalls[1] = [kind |-> "unknown", exit |-> 1]

----------------------------------------------------------------------------
(* scripts/ai-client.js: extractJSON                                       *)

(* \s of a regular expression and the white space of JSON, as far as the   *)
(* texts at hand have any                                                  *)
WhiteSpace == {" ", "\n", "\t", "\r"}

StartsAt(s, i, w) == i + Len(w) - 1 <= Len(s) /\ SubSeq(s, i, i + Len(w) - 1) = w

(* first position from i on that holds no white space *)
RECURSIVE SkipWs(_, _)
SkipWs(s, i) ==
  IF i <= Len(s) /\ s[i] \in WhiteSpace THEN SkipWs(s, i + 1) ELSE i

Max(S) == CHOOSE x \in S : \A y \in S : x >= y

NoParse == [ok |-> FALSE, v |-> Undefined, next |-> 0]
Parsed(v, next) == [ok |-> TRUE, v |-> v, next |-> next]

(* JSON.parse, for documents of objects, arrays, strings without escapes,  *)
(* non-negative integers and null                                          *)
DigitChars == {Digits[i] : i \in 1..Len(Digits)}

RECURSIVE DigitRunEnd(_, _)
DigitRunEnd(s, i) ==
  IF i <= Len(s) /\ s[i] \in DigitChars THEN DigitRunEnd(s, i + 1) ELSE i

(* position of the closing quote of the string opened before i, 0 if none *)
RECURSIVE StringEnd(_, _)
StringEnd(s, i) ==
  IF i > Len(s) \/ s[i] \in {"\n", "\t", "\r", "\\"} THEN 0
  ELSE IF s[i] = "\"" THEN i
  ELSE StringEnd(s, i + 1)

ParseString(s, i) ==
  IF i <= Len(s) /\ s[i] = "\"" /\ StringEnd(s, i + 1) > 0
  THEN Parsed(SubSeq(s, i + 1, StringEnd(s, i + 1) - 1), StringEnd(s, i + 1) + 1)
  ELSE NoParse

ParseNumber(s, i) ==
  LET e == IF s[i] = "0" THEN i + 1 ELSE DigitRunEnd(s, i)
  IN Parsed(Num(DecVal(SubSeq(s, i, e - 1), 0)), e)

RECURSIVE ParseValue(_, _)
RECURSIVE ParseElements(_, _, _)
RECURSIVE ParseMembers(_, _, _)

(* the elements of an array from position i on, after those of acc *)
ParseElements(s, i, acc) ==
  LET e == ParseValue(s, SkipWs(s, i))
      j == SkipWs(s, e.next)
  IN IF ~e.ok \/ j > Len(s) THEN NoParse
     ELSE IF s[j] = "," THEN ParseElements(s, j + 1, Append(acc, e.v))
     ELSE IF s[j] = "]" THEN Parsed(Arr(Append(acc, e.v)), j + 1)
     ELSE NoParse

(* the members of an object from position i on, after those of acc *)
ParseMembers(s, i, acc) ==
  LET k == ParseString(s, SkipWs(s, i))
      c == SkipWs(s, k.next)
      e == ParseValue(s, SkipWs(s, c + 1))
      j == SkipWs(s, e.next)
  IN IF ~k.ok \/ c > Len(s) \/ s[c] # ":" THEN NoParse
     ELSE IF ~e.ok \/ j > Len(s) THEN NoParse
     ELSE IF s[j] = "," THEN ParseMembers(s, j + 1, Set(acc, k.v, e.v))
     ELSE IF s[j] = "}" THEN Parsed(Obj(Set(acc, k.v, e.v)), j + 1)
     ELSE NoParse

ParseValue(s, i) ==
  IF i > Len(s) THEN NoParse
  ELSE IF s[i] = "{"
       THEN IF SkipWs(s, i + 1) <= Len(s) /\ s[SkipWs(s, i + 1)] = "}"
            THEN Parsed(Obj(<<>>), SkipWs(s, i + 1) + 1)
            ELSE ParseMembers(s, i + 1, <<>>)
  ELSE IF s[i] = "["
       THEN IF SkipWs(s, i + 1) <= Len(s) /\ s[SkipWs(s, i + 1)] = "]"
            THEN Parsed(Arr(<<>>), SkipWs(s, i + 1) + 1)
            ELSE ParseElements(s, i + 1, <<>>)
  ELSE IF s[i] = "\""
       THEN LET r == ParseString(s, i) IN IF r.ok THEN Parsed(Str(r.v), r.next) ELSE NoParse
  ELSE IF s[i] \in DigitChars THEN ParseNumber(s, i)
  ELSE IF StartsAt(s, i, <<"n","u","l","l">>) THEN Parsed(Null, i + 4)
  ELSE NoParse

(* JSON.parse(text): the value, or a SyntaxError *)
JSONParse(text) ==
  LET r == ParseValue(text, SkipWs(text, 1))
  IN IF r.ok /\ SkipWs(text, r.next) > Len(text) THEN [ok |-> TRUE, v |-> r.v]
     ELSE [ok |-> FALSE, v |-> Undefined]

(* the character U+0060, which no string literal of this language holds *)
Tick == "U+0060"

Fence == <<Tick, Tick, Tick>>
CloseFence == <<"\n">> \o Fence

(* text.match(/FENCE(?:json)?\s*\n([\s\S]*?)\nFENCE/) tried at position i: *)
(* <<>> or <<the text captured>>.  The white space after the opening fence *)
(* is taken up to its last line feed that still leaves a closing fence.    *)
CodeBlockAt(s, i) ==
  LET j == IF StartsAt(s, i + 3, <<"j","s","o","n">>) THEN i + 7 ELSE i + 3
      closes(n) == {k \in (n + 1)..Len(s) : StartsAt(s, k, CloseFence)}
      opens == {n \in j..(SkipWs(s, j) - 1) : s[n] = "\n" /\ closes(n) # {}}
  IN IF StartsAt(s, i, Fence) /\ opens # {}
     THEN <<SubSeq(s, Max(opens) + 1, Min(closes(Max(opens))) - 1)>>
     ELSE <<>>

MatchCodeBlock(s) ==
  LET starts == {i \in 1..Len(s) : CodeBlockAt(s, i) # <<>>}
  IN IF starts = {} THEN <<>> ELSE CodeBlockAt(s, Min(starts))

MatchBracesToFirstClose(s) ==
  LET opens == {i \in 1..Len(s) : s[i] = "{"}
      closes == {i \in 1..Len(s) : s[i] = "}"}
  IN IF opens # {} /\ \E j \in closes : j > Min(opens)
     THEN <<SubSeq(s, Min(opens), Min({j \in closes : j > Min(opens)}))>>
     ELSE <<>>

(* text.match(/\{[\s\S]*\}/): from the first { to the last } *)
MatchBraces(s) ==
  LET opens == {i \in 1..Len(s) : s[i] = "{"}
      closes == {i \in 1..Len(s) : s[i] = "}"}
  IN IF opens # {} /\ \E j \in closes : j > Min(opens)
     THEN <<SubSeq(s, Min(opens), Max(closes))>>
     ELSE <<>>

(* how a call ends: with a value, or with the SyntaxError of JSON.parse *)
Returns(v) == [threw |-> FALSE, v |-> v]
Throws == [threw |-> TRUE, v |-> Undefined]

ParseOrThrow(candidate) ==
  IF JSONParse(candidate).ok THEN Returns(JSONParse(candidate).v) ELSE Throws

extractJSON(text) ==
  IF MatchCodeBlock(text) # <<>> THEN ParseOrThrow(MatchCodeBlock(text)[1])
  ELSE IF MatchBraces(text) # <<>> THEN ParseOrThrow(MatchBraces(text)[1])
  ELSE ParseOrThrow(text)

(* Inputs: an optional fenced block, with or without the json tag, then    *)
(* more text; and some responses written out.  The texts hold no escape    *)
(* sequence, no sign, fraction or exponent and no true or false.           *)
MaxText == 2

TextAlphabet == {"{", "}", "1", "\n"}

TextsUpTo(n) == SeqsUpTo(TextAlphabet, n)

FencedTexts ==
  {Fence \o tag \o <<"\n">> \o c \o CloseFence : tag \in {<<>>, <<"j","s","o","n">>},
                                                 c \in TextsUpTo(MaxText)}

ProseThenObject ==
  <<"P","l","a","n",":"," ","{","\"","i","d","\"",":"," ","1",","," ","\"","a","\"",":"," ","[","1",","," ","{","}","]","}"," ","d","o","n","e">>

FencedObject ==
  <<Tick,Tick,Tick,"j","s","o","n","\n","{","\"","t","e","s","t","s","\"",":"," ","[","]","}","\n",Tick,Tick,Tick>>

FencedNoteThenObject ==
  <<Tick,Tick,Tick,"\n","n","o","t","e","\n",Tick,Tick,Tick,"\n","{","\"","i","d","\"",":"," ","1","}">>

ArrayOfObjects ==
  <<"[","{","\"","i","d","\"",":"," ","1","}",","," ","{","\"","i","d","\"",":"," ","2","}","]">>

PlainProse ==
  <<"n","o"," ","t","e","s","t","s"," ","f","o","r"," ","y","o","u">>

BareNull ==
  <<" ","n","u","l","l","\n">>

ResponseTexts ==
  {ProseThenObject,
   FencedObject,
   FencedNoteThenObject,
   ArrayOfObjects,
   PlainProse,
   BareNull}

(* an object with an object inside, and prose around it *)
EmbeddedObject ==
  <<"{","\"","a","\"",":"," ","{","\"","b","\"",":"," ","1","}","}">>

MaxProse == 1

ProseAlphabet == {"a", " ", "{", "}"}

Embedded(before, after) == before \o EmbeddedObject \o after

EmbeddedTexts ==
  {Embedded(before, after) : before \in SeqsUpTo(ProseAlphabet, MaxProse),
                             after \in SeqsUpTo(ProseAlphabet, MaxProse)}

ExtractTexts ==
  {f \o p : f \in FencedTexts \cup {<<>>}, p \in TextsUpTo(MaxText)} \cup ResponseTexts
  \cup EmbeddedTexts

ExtractInit ==
  /\ xText \in ExtractTexts
  /\ xOut = <<>>

ApplyExtractJSON ==
  /\ xOut = <<>>
  /\ xOut' = <<extractJSON(xText)>>
  /\ UNCHANGED <<xText, nonExtractVars>>

InitExtract ==
  ExtractInit /\ ExecIdle /\ SubstIdle /\ UrlIdle /\ DetectIdle /\ SynthIdle
  /\ StageIdle

SpecExtract == InitExtract /\ [][ApplyExtractJSON]_vars

----------------------------------------------------------------------------
(* Properties of extractJSON *)

(* the candidate texts of the three strategies, in order: the body of the  *)
(* first fenced block, the span from the first { to the last }, the whole  *)
(* text; a strategy without a match has no candidate                       *)
Candidates(text) == MatchCodeBlock(text) \o MatchBraces(text) \o <<text>>

Parsing(text) == {i \in 1..Len(Candidates(text)) : JSONParse(Candidates(text)[i]).ok}

(* C18: extractJSON returns what the first candidate that parses parses    *)
(* to, a candidate that fails to parse giving way to the next strategy,    *)
(* and ends with an error only if no candidate parses.                     *)
C18_FirstSuccessfulParse ==
  xOut # <<>> =>
    IF Parsing(xText) = {} THEN xOut[1].threw
    ELSE xOut[1] = [threw |-> FALSE,
                    v |-> JSONParse(Candidates(xText)[Min(Parsing(xText))]).v]

(* what holds instead: the first strategy that has a candidate decides *)
C18_FirstMatchDecides ==
  xOut # <<>> =>
    IF 1 \in Parsing(xText) THEN xOut[1] = [threw |-> FALSE, v |-> JSONParse(Candidates(xText)[1]).v]
    ELSE xOut[1].threw

(* a fenced block that parses; prose around an object; a fenced note       *)
(* followed by an object, on which the call throws                        *)
C18_SeenFenced == xOut # <<>> /\ xText = FencedObject /\ ~xOut[1].threw
C18_SeenBraces == xOut # <<>> /\ xText = ProseThenObject /\ ~xOut[1].threw
C18_SeenThrow ==
  xOut # <<>> /\ xText = FencedNoteThenObject /\ xOut[1].threw /\ 2 \in Parsing(xText)

----------------------------------------------------------------------------
(* scripts/ai-generate-tests.js: main, and the run of execute-tests.js in  *)
(* the same directory that follows it                                      *)

K_tests == <<"t","e","s","t","s">>
K_steps == <<"s","t","e","p","s">>
K_method == <<"m","e","t","h","o","d">>
K_endpoint == <<"e","n","d","p","o","i","n","t">>
K_body == <<"b","o","d","y">>
K_headers == <<"h","e","a","d","e","r","s">>
K_expectedStatus == <<"e","x","p","e","c","t","e","d","S","t","a","t","u","s">>
K_storeVariables == <<"s","t","o","r","e","V","a","r","i","a","b","l","e","s">>

(* how the awaited callAI settled: with the text of the model, or with the *)
(* error of the provider                                                   *)
Generated(text) == [ok |-> TRUE, text |-> text]
GenerationFailed == [ok |-> FALSE, text |-> <<>>]

(* suite.steps.length of the forEach: reading a property of null or        *)
(* undefined throws a TypeError                                            *)
HasLength(suite) ==
  /\ suite.t = "obj"
  /\ Get(suite.o, K_steps).t \notin {"null", "undef"}

(* testPlan.tests, where testPlan may be any JSON value but null *)
TestsOf(doc) ==
  IF doc.t = "obj" THEN Get(doc.o, K_tests) ELSE Undefined

(* the try block ran to its end: callAI resolved, extractJSON returned,    *)
(* the structure is valid and every suite was logged                       *)
PlanAccepted(r) ==
  /\ r.ok
  /\ ~extractJSON(r.text).threw
  /\ extractJSON(r.text).v.t # "null"
  /\ Truthy(TestsOf(extractJSON(r.text).v))
  /\ TestsOf(extractJSON(r.text).v).t = "arr"
  /\ \A i \in 1..Len(TestsOf(extractJSON(r.text).v).a) :
       HasLength(TestsOf(extractJSON(r.text).v).a[i])

(* A step of sanity-tests.json as executeStep destructures it *)
StepOf(o) ==
  [method |-> Get(o.o, K_method).s,
   endpoint |-> Get(o.o, K_endpoint),
   body |-> Get(o.o, K_body),
   headers |-> Get(o.o, K_headers),
   expectedStatus |-> Get(o.o, K_expectedStatus).n,
   storeVariables |->
     IF Get(o.o, K_storeVariables).t = "obj"
     THEN [j \in 1..Len(Get(o.o, K_storeVariables).o) |->
             <<Get(o.o, K_storeVariables).o[j][1], Get(o.o, K_storeVariables).o[j][2].s>>]
     ELSE <<>>]

(* sanity-tests.json as written by JSON.stringify(testPlan, null, 2) and   *)
(* read back by execute-tests.js: the steps of each suite of testPlan.tests *)
WrittenPlan(doc) ==
  [i \in 1..Len(TestsOf(doc).a) |->
     [k \in 1..Len(Get(TestsOf(doc).a[i].o, K_steps).a) |->
        StepOf(Get(TestsOf(doc).a[i].o, K_steps).a[k])]]

(* Inputs: what the model may answer *)
PlanWithoutSuites ==
  <<"{","\"","t","e","s","t","s","\"",":"," ","[","]","}">>

PlanWithEmptySuite ==
  <<"H","e","r","e"," ","i","t"," ","i","s",":","\n",Tick,Tick,Tick,"j","s","o","n","\n","{","\"","t","e","s","t","s","\"",":"," ","[","{","\"","n","a","m","e","\"",":"," ","\"","n","o","n","e","\"",","," ","\"","s","t","e","p","s","\"",":"," ","[","]","}","]","}","\n",Tick,Tick,Tick>>

PlanWithTwoSuites ==
  <<Tick,Tick,Tick,"j","s","o","n","\n","{","\"","t","e","s","t","s","\"",":"," ","[","{","\"","n","a","m","e","\"",":"," ","\"","i","t","e","m","s","\"",","," ","\"","s","t","e","p","s","\"",":"," ","[","{","\"","m","e","t","h","o","d","\"",":"," ","\"","P","O","S","T","\"",","," ","\"","e","n","d","p","o","i","n","t","\"",":"," ","\"","/","i","t","e","m","s","\"",","," ","\"","b","o","d","y","\"",":"," ","{","\"","n","\"",":"," ","1","}",","," ","\"","e","x","p","e","c","t","e","d","S","t","a","t","u","s","\"",":"," ","2","0","0",","," ","\"","s","t","o","r","e","V","a","r","i","a","b","l","e","s","\"",":"," ","{","\"","i","d","\"",":"," ","\"","r","e","s","p","o","n","s","e",".","i","d","\"","}","}",","," ","{","\"","m","e","t","h","o","d","\"",":"," ","\"","G","E","T","\"",","," ","\"","e","n","d","p","o","i","n","t","\"",":"," ","\"","/","i","t","e","m","s","/","$","{","i","d","}","\"",","," ","\"","e","x","p","e","c","t","e","d","S","t","a","t","u","s","\"",":"," ","2","0","0","}","]","}",","," ","{","\"","n","a","m","e","\"",":"," ","\"","h","e","a","l","t","h","\"",","," ","\"","s","t","e","p","s","\"",":"," ","[","{","\"","m","e","t","h","o","d","\"",":"," ","\"","G","E","T","\"",","," ","\"","e","n","d","p","o","i","n","t","\"",":"," ","\"","/","h","e","a","l","t","h","\"",","," ","\"","e","x","p","e","c","t","e","d","S","t","a","t","u","s","\"",":"," ","4","0","4","}","]","}","]","}","\n",Tick,Tick,Tick>>

PlanWithoutTests ==
  <<"{","\"","s","u","i","t","e","s","\"",":"," ","[","]","}">>

PlanWithoutSteps ==
  <<"{","\"","t","e","s","t","s","\"",":"," ","[","{","\"","n","a","m","e","\"",":"," ","\"","n","o","n","e","\"","}","]","}">>

PlanWithHealthCheck ==
  <<"{","\"","t","e","s","t","s","\"",":"," ","[","{","\"","n","a","m","e","\"",":"," ","\"","h","e","a","l","t","h","\"",","," ","\"","s","t","e","p","s","\"",":"," ","[","{","\"","m","e","t","h","o","d","\"",":"," ","\"","G","E","T","\"",","," ","\"","e","n","d","p","o","i","n","t","\"",":"," ","\"","/","h","e","a","l","t","h","\"",","," ","\"","e","x","p","e","c","t","e","d","S","t","a","t","u","s","\"",":"," ","2","0","0","}","]","}","]","}">>

NoPlan ==
  <<"I"," ","c","a","n","n","o","t"," ","h","e","l","p"," ","w","i","t","h"," ","t","h","a","t",".">>

GenerationPool ==
  {Generated(x) : x \in {PlanWithoutSuites,
                           PlanWithEmptySuite,
                           PlanWithTwoSuites,
                           PlanWithoutTests,
                           PlanWithoutSteps,
                           PlanWithHealthCheck,
                           NoPlan}}
  \cup {GenerationFailed}

(* the state of execute-tests.js but the files *)
execLocals ==
  <<pc, testPlan, outputs, baseUrl, totalTests, passedTests, failedTests,
    suiteIdx, stepIdx, variables, suiteSuccess, request, response, result,
    issued, results, warnings, bound, suiteLog, summary, exitCode>>

(* what a run of ai-generate-tests.js leaves alone *)
nonSynthVars == <<execLocals, substVars, urlVars, detectVars, extractVars,
    stageVars>>

(* outputs.json not found *)
SynthNoOutputs ==
  /\ gPc = "main"
  /\ files.outputs = <<>>
  /\ gExit' = <<1>>
  /\ gPc' = "exited"
  /\ UNCHANGED <<files, gApiUrl, aiCalls, gResponse, nonSynthVars>>

(* No API URL found in deployment outputs *)
SynthNoApiUrl ==
  /\ gPc = "main"
  /\ files.outputs # <<>>
  /\ ~Truthy(ResolveApiUrl(files.outputs[1]))
  /\ gApiUrl' = ResolveApiUrl(files.outputs[1])
  /\ gExit' = <<1>>
  /\ gPc' = "exited"
  /\ UNCHANGED <<files, aiCalls, gResponse, nonSynthVars>>

(* the codebase is scanned and callAI is called with the prompts *)
SynthCallAI ==
  /\ gPc = "main"
  /\ files.outputs # <<>>
  /\ Truthy(ResolveApiUrl(files.outputs[1]))
  /\ gApiUrl' = ResolveApiUrl(files.outputs[1])
  /\ aiCalls' = aiCalls + 1
  /\ gPc' = "callAI"
  /\ UNCHANGED <<files, gResponse, gExit, nonSynthVars>>

(* the catch block: Error generating tests, exit 1 *)
SynthFails ==
  /\ gPc = "callAI"
  /\ \E r \in GenerationPool :
       /\ ~PlanAccepted(r)
       /\ gResponse' = <<r>>
  /\ gExit' = <<1>>
  /\ gPc' = "exited"
  /\ UNCHANGED <<files, gApiUrl, aiCalls, nonSynthVars>>

(* the test plan is written to sanity-tests.json and main returns *)
SynthWrites ==
  /\ gPc = "callAI"
  /\ \E r \in GenerationPool :
       /\ PlanAccepted(r)
       /\ gResponse' = <<r>>
       /\ files' = [files EXCEPT !.plan = <<WrittenPlan(extractJSON(r.text).v)>>]
  /\ gExit' = <<0>>
  /\ gPc' = "exited"
  /\ UNCHANGED <<gApiUrl, aiCalls, nonSynthVars>>

(* execute-tests.js is started in the directory once ai-generate-tests.js  *)
(* has ended: by the test job after a synthesis that succeeded, by hand    *)
(* otherwise                                                               *)
RunExecuteTests ==
  /\ gPc = "exited"
  /\ pc = "idle"
  /\ pc' = "main"
  /\ UNCHANGED <<files, testPlan, outputs, baseUrl, totalTests, passedTests,
                 failedTests, suiteIdx, stepIdx, variables, suiteSuccess, request,
                 response, result, issued, results, warnings, bound, suiteLog,
                 summary, exitCode>>
  /\ UNCHANGED nonExecVars

(* Inputs: the directory holds the outputs of the deployment, or not, and  *)
(* possibly the sanity-tests.json of an earlier run                        *)
TestInit ==
  /\ files \in
       {[plan |-> p, outputs |-> o] :
          p \in {<<>>, <<(<<ReadSuite>>)>>},
          o \in {<<>>} \cup {<<x>> : x \in OutputsPool}}
  /\ pc = "idle"
  /\ testPlan = <<>>
  /\ outputs = <<>>
  /\ baseUrl = Undefined
  /\ totalTests = 0
  /\ passedTests = 0
  /\ failedTests = 0
  /\ suiteIdx = 1
  /\ stepIdx = 1
  /\ variables = <<>>
  /\ suiteSuccess = TRUE
  /\ request = <<>>
  /\ response = <<>>
  /\ result = <<>>
  /\ issued = {}
  /\ results = {}
  /\ warnings = {}
  /\ bound = <<>>
  /\ suiteLog = <<>>
  /\ summary = <<>>
  /\ exitCode = <<>>
  /\ gPc = "main"
  /\ gApiUrl = Undefined
  /\ aiCalls = 0
  /\ gResponse = <<>>
  /\ gExit = <<>>

SynthNext ==
  \/ SynthNoOutputs
  \/ SynthNoApiUrl
  \/ SynthCallAI
  \/ SynthFails
  \/ SynthWrites

TestNext == SynthNext \/ RunExecuteTests \/ ExecNext

InitTest == TestInit /\ SubstIdle /\ UrlIdle /\ DetectIdle /\ ExtractIdle
  /\ StageIdle

SpecTest == InitTest /\ [][TestNext]_vars

----------------------------------------------------------------------------
(* Properties of the test stage *)

(* outputs.json is missing, or it has none of the conventional keys and no *)
(* value that is a string beginning with http                              *)
NoUrlCandidate ==
  \/ files.outputs = <<>>
  \/ PresentKeys(files.outputs[1]) = {} /\ HttpValues(files.outputs[1]) = {}

IsPlan(r) ==
  /\ r.ok
  /\ ~extractJSON(r.text).threw
  /\ extractJSON(r.text).v.t = "obj"
  /\ HasOwn(extractJSON(r.text).v.o, K_tests)
  /\ OwnGet(extractJSON(r.text).v.o, K_tests).t = "arr"

SuitesOfPlan(r) == OwnGet(extractJSON(r.text).v.o, K_tests).a

ZeroSuites(r) == IsPlan(r) /\ SuitesOfPlan(r) = <<>>

(* every suite has a steps array, and it is empty *)
ZeroSteps(r) ==
  /\ IsPlan(r)
  /\ \A i \in 1..Len(SuitesOfPlan(r)) :
       /\ SuitesOfPlan(r)[i].t = "obj"
       /\ HasOwn(SuitesOfPlan(r)[i].o, K_steps)
       /\ OwnGet(SuitesOfPlan(r)[i].o, K_steps) = Arr(<<>>)

(* C19: when the generation step returns a plan with zero suites, the      *)
(* synthesis exits with a non-zero status and writes no sanity-tests.json. *)
C19_EmptyPlanFails ==
  [][(gResponse = <<>> /\ gResponse' # <<>> /\ ZeroSuites(gResponse'[1]))
       => (gExit' # <<0>> /\ gExit' # <<>> /\ files' = files)]_vars

(* what happens instead: the plan is written and the synthesis succeeds *)
C19_Seen ==
  /\ gResponse # <<>> /\ ZeroSuites(gResponse[1])
  /\ gExit = <<0>>
  /\ files.plan = <<(<<>>)>>

(* C20: when the synthesized plan has no content (zero suites, or no step  *)
(* in any suite), the test stage, synthesis followed by execution, does    *)
(* not end with both scripts reporting success.                            *)
C20_EmptyPlanNeverPasses ==
  (gResponse # <<>> /\ (ZeroSuites(gResponse[1]) \/ ZeroSteps(gResponse[1])))
    => ~(gExit = <<0>> /\ exitCode = <<0>>)

(* a stage that ran no step at all and ended with success twice *)
C20_Seen ==
  /\ gResponse # <<>> /\ ZeroSteps(gResponse[1]) /\ ~ZeroSuites(gResponse[1])
  /\ gExit = <<0>> /\ exitCode = <<0>>
  /\ totalTests = 0 /\ issued = {}

(***************************************************************************)
(* run-deployment.sh: the deployment of a project of a given kind.  The    *)
(* script runs under set -e; a command is a tool and its argument words.   *)
(***************************************************************************)

Cmd(tool, args) == [tool |-> tool, args |-> args]

(* AWS_REGION=${AWS_REGION:-us-east-1} and ${STAGE:-dev}, with neither set *)
AWS_REGION == "us-east-1"

STAGE == "dev"

NpmInstall == Cmd("npm", <<"install">>)

PipInstall == Cmd("pip", <<"install", "-r", "requirements.txt">>)

(* if [ -f name ]; then command; fi *)
IfFile(fs, name, command) == IF name \in fs THEN <<command>> ELSE <<>>

(* $([ -f first ] && echo first || echo second) *)
FirstIfFile(fs, first, second) == IF first \in fs THEN first ELSE second

SamCommandsDeployOnly(fs, stack) ==
  << Cmd("sam", <<"deploy", "--stack-name", stack, "--region", AWS_REGION,
                  "--capabilities", "CAPABILITY_IAM", "CAPABILITY_NAMED_IAM",
                  "CAPABILITY_AUTO_EXPAND", "--no-confirm-changeset",
                  "--no-fail-on-empty-changeset", "--resolve-s3">>) >>

SamCommands(fs, stack) ==
  << Cmd("sam", <<"build", "--template",
                  FirstIfFile(fs, "template.yaml", "template.yml")>>),
     Cmd("sam", <<"deploy", "--stack-name", stack, "--region", AWS_REGION,
                  "--capabilities", "CAPABILITY_IAM", "CAPABILITY_NAMED_IAM",
                  "CAPABILITY_AUTO_EXPAND", "--no-confirm-changeset",
                  "--no-fail-on-empty-changeset", "--resolve-s3">>) >>

CdkCommands(fs) ==
  IfFile(fs, "package.json", NpmInstall)
  \o IfFile(fs, "requirements.txt", PipInstall)
  \o << Cmd("npx", <<"cdk", "synth">>),
        Cmd("npx", <<"cdk", "deploy", "--all", "--require-approval", "never",
                     "--region", AWS_REGION,
                     "--outputs-file", "cdk-outputs.json">>) >>

TerraformCommands(stack) ==
  << Cmd("terraform", <<"init", "-input=false">>),
     Cmd("terraform", <<"plan", "-out=tfplan", "-var=stack_name=" \o stack,
                        "-var=region=" \o AWS_REGION, "-input=false">>),
     Cmd("terraform", <<"apply", "-auto-approve", "-input=false",
                        "tfplan">>) >>

ServerlessCommands(fs) ==
  IfFile(fs, "package.json", NpmInstall)
  \o << Cmd("serverless",
            <<"deploy", "--config",
              FirstIfFile(fs, "serverless.yml", "serverless.yaml"),
              "--stage", STAGE, "--region", AWS_REGION, "--verbose">>) >>

(* the names the cloudformation branch looks for, in the order of its *)
(* if/elif chain                                                      *)
CfnTemplateNames ==
  <<"cloudformation.yaml", "cloudformation.yml", "stack.yaml", "stack.yml",
    "template.yaml", "template.yml">>

(* <<>> or <<the template the chain settles on>> *)
CfnTemplate(fs) ==
  LET hits == {i \in DOMAIN CfnTemplateNames : CfnTemplateNames[i] \in fs}
  IN IF hits = {} THEN <<>>
     ELSE <<CfnTemplateNames[CHOOSE i \in hits : \A j \in hits : i <= j]>>

CloudFormationCommands(fs, stack) ==
  << Cmd("aws", <<"cloudformation", "deploy", "--template-file",
                  CfnTemplate(fs)[1], "--stack-name", stack,
                  "--region", AWS_REGION,
                  "--capabilities", "CAPABILITY_IAM", "CAPABILITY_NAMED_IAM",
                  "CAPABILITY_AUTO_EXPAND",
                  "--no-fail-on-empty-changeset">>) >>

LambdaCommands(fs, stack) ==
  IfFile(fs, "package.json", Cmd("npm", <<"install", "--production">>))
  \o IfFile(fs, "requirements.txt",
            Cmd("pip", <<"install", "-r", "requirements.txt", "-t", ".">>))
  \o << Cmd("cat", <<">", "auto-generated-template.yaml">>),
        Cmd("sam", <<"build", "--template", "auto-generated-template.yaml">>),
        Cmd("sam", <<"deploy", "--stack-name", stack, "--region", AWS_REGION,
                     "--capabilities", "CAPABILITY_IAM",
                     "--no-confirm-changeset", "--resolve-s3">>) >>

(* the patterns of case $IAC_TYPE in, the default one excepted *)
SupportedTypes ==
  {"sam", "cdk", "terraform", "serverless", "cloudformation", "lambda"}

(* the commands of the branch case $IAC_TYPE in selects *)
BranchCommands(type, fs, stack) ==
  CASE type = "sam" -> SamCommands(fs, stack)
    [] type = "cdk" -> CdkCommands(fs)
    [] type = "terraform" -> TerraformCommands(stack)
    [] type = "serverless" -> ServerlessCommands(fs)
    [] type = "cloudformation" -> CloudFormationCommands(fs, stack)
    [] type = "lambda" -> LambdaCommands(fs, stack)

(* the log_info that closes each branch *)
BranchSuccess(type) ==
  CASE type = "sam" -> "SAM deployment completed successfully"
    [] type = "cdk" -> "CDK deployment completed successfully"
    [] type = "terraform" -> "Terraform deployment completed successfully"
    [] type = "serverless" -> "Serverless deployment completed successfully"
    [] type = "cloudformation" ->
         "CloudFormation deployment completed successfully"
    [] type = "lambda" -> "Lambda deployment completed successfully"

DeploymentCompleted == "Deployment completed successfully!"

(* [ -z "$IAC_TYPE" ] or [ -z "$STACK_NAME" ] *)
ArgumentMissingNever(type, stack) == FALSE

ArgumentMissing(type, stack) == type = "" \/ stack = ""

(* the exit statuses a failing tool gives *)
FailCodes == {1, 255}

(* sam deploy and aws cloudformation deploy end with a non-zero status on *)
(* a changeset without changes unless told not to                         *)
FailsOnEmptyChangeset(command) ==
  /\ \/ command.tool = "sam" /\ command.args[1] = "deploy"
     \/ command.tool = "aws" /\ command.args[2] = "deploy"
  /\ \A i \in DOMAIN command.args :
       command.args[i] # "--no-fail-on-empty-changeset"

(* the exit statuses a command may give *)
ToolExits(command, unchanged, faults) ==
  IF unchanged /\ FailsOnEmptyChangeset(command) THEN FailCodes
  ELSE {0} \cup (IF faults THEN FailCodes ELSE {})

(* the files a command that exited zero has written *)
WrittenBy(command) ==
  LET outs ==
        {i \in DOMAIN command.args :
           /\ i > 1
           /\ command.args[i - 1] \in {">", "--outputs-file"}}
  IN {command.args[i] : i \in outs}
     \cup (IF command.tool = "terraform" /\ command.args[1] = "plan"
             THEN {"tfplan"} ELSE {})

(* set -e: the script ends at a command that exits non-zero *)
ErrexitNever(code) == FALSE

Errexit(code) == code # 0

MaxFiles == 3

DeployFiles ==
  {"template.yaml", "template.yml", "package.json", "requirements.txt",
   "serverless.yml", "cloudformation.yaml", "cloudformation.yml",
   "stack.yaml", "stack.yml"}

(* the values of IAC_TYPE tried: the six kinds, the detector's unknown, a *)
(* kind in capitals, and the empty string                                 *)
IacTypes == SupportedTypes \cup {"unknown", "SAM", ""}

DeployInit ==
  /\ rdIacType \in IacTypes
  /\ rdStackName \in {"", "stk"}
  /\ rdFiles \in {fs \in SUBSET DeployFiles : Cardinality(fs) <= MaxFiles}
  /\ rdUnchanged \in BOOLEAN
  /\ rdFaults \in BOOLEAN
  /\ rdPc = "start"
  /\ rdTodo = <<>>
  /\ rdRan = <<>>
  /\ rdLog = <<>>
  /\ rdExit = <<>>

(* the variables of test synthesis and execution and of the operators *)
(* checked on their own                                               *)
coreVars ==
  <<execVars, substVars, urlVars, detectVars, extractVars, synthVars>>

nonDeployVars == <<coreVars, outputsVars, generatorVars, callVars, extraVars>>

deployInputs == <<rdIacType, rdStackName, rdUnchanged, rdFaults>>

(* a required argument is empty *)
DeployInvalid ==
  /\ rdPc = "start"
  /\ ArgumentMissing(rdIacType, rdStackName)
  /\ rdLog' = Append(rdLog, "ERROR")
  /\ rdExit' = <<1>>
  /\ rdPc' = "done"
  /\ UNCHANGED <<deployInputs, rdFiles, rdTodo, rdRan, nonDeployVars>>

(* the default branch of the case *)
DeployUnsupported ==
  /\ rdPc = "start"
  /\ ~ArgumentMissing(rdIacType, rdStackName)
  /\ rdIacType \notin SupportedTypes
  /\ rdLog' = Append(rdLog, "ERROR")
  /\ rdExit' = <<1>>
  /\ rdPc' = "done"
  /\ UNCHANGED <<deployInputs, rdFiles, rdTodo, rdRan, nonDeployVars>>

(* the cloudformation branch finds no template *)
DeployNoTemplate ==
  /\ rdPc = "start"
  /\ ~ArgumentMissing(rdIacType, rdStackName)
  /\ rdIacType = "cloudformation"
  /\ CfnTemplate(rdFiles) = <<>>
  /\ rdLog' = Append(rdLog, "ERROR")
  /\ rdExit' = <<1>>
  /\ rdPc' = "done"
  /\ UNCHANGED <<deployInputs, rdFiles, rdTodo, rdRan, nonDeployVars>>

(* the case selects a branch *)
DeployBranch ==
  /\ rdPc = "start"
  /\ ~ArgumentMissing(rdIacType, rdStackName)
  /\ rdIacType \in SupportedTypes
  /\ rdIacType = "cloudformation" => CfnTemplate(rdFiles) # <<>>
  /\ rdTodo' = BranchCommands(rdIacType, rdFiles, rdStackName)
  /\ rdPc' = "run"
  /\ UNCHANGED <<deployInputs, rdFiles, rdRan, rdLog, rdExit, nonDeployVars>>

(* the next command of the branch runs *)
DeployRun ==
  /\ rdPc = "run"
  /\ rdTodo # <<>>
  /\ \E code \in ToolExits(Head(rdTodo), rdUnchanged, rdFaults) :
       /\ rdRan' = Append(rdRan, [command |-> Head(rdTodo), exit |-> code])
       /\ rdTodo' = Tail(rdTodo)
       /\ IF Errexit(code)
            THEN /\ rdExit' = <<code>>
                 /\ rdPc' = "done"
                 /\ UNCHANGED rdFiles
            ELSE /\ rdFiles' = rdFiles \cup WrittenBy(Head(rdTodo))
                 /\ UNCHANGED <<rdExit, rdPc>>
  /\ UNCHANGED <<deployInputs, rdLog, nonDeployVars>>

(* the branch is through *)
DeployCompleted ==
  /\ rdPc = "run"
  /\ rdTodo = <<>>
  /\ rdLog' = rdLog \o <<BranchSuccess(rdIacType), DeploymentCompleted>>
  /\ rdExit' = <<0>>
  /\ rdPc' = "done"
  /\ UNCHANGED <<deployInputs, rdFiles, rdTodo, rdRan, nonDeployVars>>

DeployNext ==
  \/ DeployInvalid
  \/ DeployUnsupported
  \/ DeployNoTemplate
  \/ DeployBranch
  \/ DeployRun
  \/ DeployCompleted

InitDeploy ==
  /\ DeployInit
  /\ ExecIdle /\ SubstIdle /\ UrlIdle /\ DetectIdle /\ ExtractIdle
  /\ SynthIdle /\ OutputsIdle /\ GeneratorIdle /\ CallIdle /\ ExtraIdle

SpecDeploy == InitDeploy /\ [][DeployNext]_vars

(***************************************************************************)
(* Properties of run-deployment.sh                                         *)
(***************************************************************************)

(* the command starts with these words *)
StartsWith(command, words) ==
  /\ command.tool = words[1]
  /\ Len(command.args) >= Len(words) - 1
  /\ \A i \in 2..Len(words) : command.args[i - 1] = words[i]

Always(words) == [words |-> words, always |-> TRUE]

IfPresent(words) == [words |-> words, always |-> FALSE]

(* the tools of each kind in the order the script names them; a step that *)
(* depends on a manifest may be left out                                  *)
DeclaredSteps(type) ==
  CASE type = "sam" ->
         <<Always(<<"sam", "build">>), Always(<<"sam", "deploy">>)>>
    [] type = "cdk" ->
         <<IfPresent(<<"npm", "install">>), IfPresent(<<"pip", "install">>),
           Always(<<"npx", "cdk", "synth">>),
           Always(<<"npx", "cdk", "deploy">>)>>
    [] type = "terraform" ->
         <<Always(<<"terraform", "init">>), Always(<<"terraform", "plan">>),
           Always(<<"terraform", "apply">>)>>
    [] type = "serverless" ->
         <<IfPresent(<<"npm", "install">>),
           Always(<<"serverless", "deploy">>)>>
    [] type = "cloudformation" ->
         <<Always(<<"aws", "cloudformation", "deploy">>)>>
    [] type = "lambda" ->
         <<IfPresent(<<"npm", "install">>), IfPresent(<<"pip", "install">>),
           Always(<<"cat", ">">>), Always(<<"sam", "build">>),
           Always(<<"sam", "deploy">>)>>
    [] OTHER -> <<>>

(* the declared step an invocation is, 0 if none *)
StepNumber(type, command) ==
  LET steps == DeclaredSteps(type)
      hits == {k \in DOMAIN steps : StartsWith(command, steps[k].words)}
  IN IF hits = {} THEN 0 ELSE CHOOSE k \in hits : TRUE

(* the invocations so far are declared steps, in the declared order, none *)
(* of the unconditional ones skipped                                      *)
InDeclaredOrder ==
  LET steps == DeclaredSteps(rdIacType)
      at(i) == StepNumber(rdIacType, rdRan[i].command)
  IN /\ \A i \in DOMAIN rdRan : at(i) # 0
     /\ \A i, j \in DOMAIN rdRan : i < j => at(i) < at(j)
     /\ \A j \in DOMAIN rdRan : \A k \in 1..(at(j) - 1) :
          steps[k].always => \E i \in 1..(j - 1) : at(i) = k

AllEarlierExitedZero ==
  \A i \in DOMAIN rdRan : i < Len(rdRan) => rdRan[i].exit = 0

SomeToolFailed == \E i \in DOMAIN rdRan : rdRan[i].exit # 0

SuccessReported ==
  \E i \in DOMAIN rdLog :
    \/ rdLog[i] = DeploymentCompleted
    \/ \E type \in SupportedTypes : rdLog[i] = BranchSuccess(type)

StoppedAtFailure ==
  SomeToolFailed =>
    /\ rdPc = "done"
    /\ rdExit = <<rdRan[Len(rdRan)].exit>>
    /\ rdExit # <<0>>
    /\ ~SuccessReported

(* apply ran after an init and a plan that exited zero, on the file that *)
(* plan was told to write and has written                                *)
ApplyAfterPlan ==
  \A j \in DOMAIN rdRan :
    StartsWith(rdRan[j].command, <<"terraform", "apply">>) =>
      LET planFile == rdRan[j].command.args[Len(rdRan[j].command.args)]
      IN /\ \E i \in 1..(j - 1) :
              /\ StartsWith(rdRan[i].command, <<"terraform", "init">>)
              /\ rdRan[i].exit = 0
         /\ \E i \in 1..(j - 1) :
              /\ StartsWith(rdRan[i].command, <<"terraform", "plan">>)
              /\ rdRan[i].exit = 0
              /\ \E a \in DOMAIN rdRan[i].command.args :
                   rdRan[i].command.args[a] = "-out=" \o planFile
         /\ planFile \in rdFiles

(* C21: in a deployment the tools run in the declared order, each only    *)
(* after all earlier ones exited zero; at the first non-zero exit the     *)
(* script is over with that non-zero status, no further tool runs and no  *)
(* success is reported; terraform apply runs only after init and plan     *)
(* succeeded, on the plan file that plan wrote                            *)
C21_FailFastInOrder ==
  /\ InDeclaredOrder
  /\ AllEarlierExitedZero
  /\ StoppedAtFailure
  /\ ApplyAfterPlan

(* a terraform deployment that stopped at a failing plan, apply not run *)
C21_Witness ==
  /\ rdIacType = "terraform"
  /\ rdPc = "done"
  /\ Len(rdRan) = 2
  /\ rdRan[2].exit # 0
  /\ rdTodo # <<>>

(* a deployment of a supported kind, with both arguments, of a project *)
(* that is deployed already and unchanged, no tool failing on its own  *)
RerunOfUnchangedProject ==
  /\ rdIacType \in SupportedTypes
  /\ rdStackName # ""
  /\ rdUnchanged
  /\ ~rdFaults
  /\ rdRan # <<>>

(* C22: deploy is idempotent for every kind: run again on a project that *)
(* is deployed already and unchanged, where the tool finds an empty      *)
(* changeset or an applied plan, it completes successfully               *)
C22_RerunSucceeds ==
  (RerunOfUnchangedProject /\ rdPc = "done") => rdExit = <<0>>

(* the arguments the script rejects *)
RejectedArguments ==
  rdIacType \notin SupportedTypes \/ rdIacType = "" \/ rdStackName = ""

(* C23: deploy with kind unknown or any other value outside the six kinds, *)
(* or with an empty IAC_TYPE or STACK_NAME, fails at once with a non-zero  *)
(* exit and invokes no build or deployment tool                            *)
C23_RejectedBeforeAnyTool ==
  RejectedArguments =>
    /\ rdRan = <<>>
    /\ rdTodo = <<>>
    /\ rdPc \in {"start", "done"}
    /\ rdPc = "done" =>
         /\ rdExit # <<>>
         /\ rdExit # <<0>>
         /\ ~SuccessReported

(* a kind written in capitals is rejected, no tool invoked *)
C23_Witness ==
  /\ rdIacType = "SAM"
  /\ rdStackName # ""
  /\ rdPc = "done"
  /\ rdExit = <<1>>
  /\ rdRan = <<>>

(***************************************************************************)
(* extract-outputs.sh: the outputs of the deployed stack as one document   *)
(* on standard output.  A tool's standard output is the sequence of the    *)
(* JSON documents it printed; jq applies its filter to each document it    *)
(* reads.                                                                  *)
(***************************************************************************)

K_OutputKey == <<"O","u","t","p","u","t","K","e","y">>
K_OutputValue == <<"O","u","t","p","u","t","V","a","l","u","e">>
K_value == <<"v","a","l","u","e">>
K_type == <<"t","y","p","e">>
K_service == <<"s","e","r","v","i","c","e">>
K_stage == <<"s","t","a","g","e">>
K_region == <<"r","e","g","i","o","n">>
K_endpoints == <<"e","n","d","p","o","i","n","t","s">>
K_provider == <<"p","r","o","v","i","d","e","r">>
K_functions == <<"f","u","n","c","t","i","o","n","s">>
K_events == <<"e","v","e","n","t","s">>
K_http == <<"h","t","t","p">>

(* a jq filter that ended with an error *)
JqError == [t |-> "error"]

(* jq .k *)
JqField(v, k) ==
  CASE v.t = "obj" -> IF HasOwn(v.o, k) THEN OwnGet(v.o, k) ELSE Null
    [] v.t = "null" -> Null
    [] OTHER -> JqError

(* jq .[] : the values iterated over, or <<JqError>> *)
JqIterate(v) ==
  CASE v.t = "arr" -> v.a
    [] v.t = "obj" -> [i \in 1..Len(v.o) |-> v.o[i][2]]
    [] OTHER -> <<JqError>>

(* jq  a + b  on objects: the members of b override those of a *)
RECURSIVE JqAdd(_, _, _)
JqAdd(a, b, i) ==
  IF i > Len(b) THEN a ELSE JqAdd(Set(a, b[i][1], b[i][2]), b, i + 1)

(* reduce .[] as $item ({}; .[$item.OutputKey] = $item.OutputValue) *)
RECURSIVE ReduceOutputs(_, _, _)
ReduceOutputs(items, i, acc) ==
  IF i > Len(items) THEN Obj(acc)
  ELSE LET key == JqField(items[i], K_OutputKey)
           val == JqField(items[i], K_OutputValue)
       IN IF key.t # "str" \/ val = JqError THEN JqError
          ELSE ReduceOutputs(items, i + 1, Set(acc, key.s, val))

StackOutputsFilter(v) ==
  IF JqIterate(v) = <<JqError>> THEN JqError
  ELSE ReduceOutputs(JqIterate(v), 1, <<>>)

(* reduce to_entries[] as $stack ({}; . + $stack.value) *)
RECURSIVE ReduceStacks(_, _, _)
ReduceStacks(entries, i, acc) ==
  IF i > Len(entries) THEN Obj(acc)
  ELSE CASE entries[i][2].t = "obj" ->
              ReduceStacks(entries, i + 1, JqAdd(acc, entries[i][2].o, 1))
         [] entries[i][2].t = "null" -> ReduceStacks(entries, i + 1, acc)
         [] OTHER -> JqError

CdkOutputsFilter(v) ==
  IF v.t # "obj" THEN JqError ELSE ReduceStacks(v.o, 1, <<>>)

(* with_entries(.value = .value.value) *)
TerraformOutputsFilter(v) ==
  IF v.t # "obj" THEN JqError
  ELSE IF \E i \in 1..Len(v.o) : JqField(v.o[i][2], K_value) = JqError
       THEN JqError
  ELSE Obj([i \in 1..Len(v.o) |-> <<v.o[i][1], JqField(v.o[i][2], K_value)>>])

(* the events of a function of the state document *)
EventsOf(function) ==
  LET events == JqField(function, K_events)
  IN IF events.t = "arr" THEN events.a ELSE <<>>

(* select(.value.events[]?.http): some event has an http member that is *)
(* neither null nor false                                               *)
HasHttpEvent(function) ==
  \E i \in DOMAIN EventsOf(function) :
    JqField(EventsOf(function)[i], K_http) \notin {Null, JqError}

(* to_entries | map(select(...) | {(.key): .value.events[].http}) | add : *)
(* one object per event of each selected function, added up, so that a    *)
(* function is left with the http member of its last event                *)
RECURSIVE AddEndpoints(_, _, _)
AddEndpoints(functions, i, acc) ==
  IF i > Len(functions) THEN acc
  ELSE IF HasHttpEvent(functions[i][2])
       THEN LET events == EventsOf(functions[i][2])
            IN AddEndpoints(functions, i + 1,
                 Set(acc, functions[i][1],
                     JqField(events[Len(events)], K_http)))
       ELSE AddEndpoints(functions, i + 1, acc)

Endpoints(functions) ==
  IF functions.t # "obj" THEN JqError
  ELSE IF \A i \in 1..Len(functions.o) : ~HasHttpEvent(functions.o[i][2])
       THEN Null
  ELSE Obj(AddEndpoints(functions.o, 1, <<>>))

(* {service: .service.service, stage: .service.provider.stage, *)
(*  region: .service.provider.region, endpoints: ...}          *)
ServerlessStateFilter(v) ==
  LET service == JqField(v, K_service)
      provider == JqField(service, K_provider)
      members ==
        << <<K_service, JqField(service, K_service)>>,
           <<K_stage, JqField(provider, K_stage)>>,
           <<K_region, JqField(provider, K_region)>>,
           <<K_endpoints, Endpoints(JqField(service, K_functions))>> >>
  IN IF \E i \in 1..4 : members[i][2] = JqError THEN JqError
     ELSE Obj(members)

(* what a command leaves: the documents on its standard output and its *)
(* exit status                                                         *)
Ran(out, exit) == [out |-> out, exit |-> exit]

(* tool | jq filter, without pipefail: the status is that of jq, which *)
(* is 0 when it read no document and 5 when the filter failed          *)
Pipe(tool, Filter(_)) ==
  IF tool.out = <<>> THEN Ran(<<>>, 0)
  ELSE IF Filter(tool.out[1]) = JqError THEN Ran(<<>>, 5)
  ELSE Ran(<<Filter(tool.out[1])>>, 0)

(* [ -z "$IAC_TYPE" ] || [ -z "$STACK_NAME" ] *)
OutputsArgumentMissing(type, stack) == type = "" \/ stack = ""

StackQueryTypes == {"sam", "cloudformation", "lambda"}

OutputsTypes == StackQueryTypes \cup {"cdk", "terraform", "serverless"}

(* Inputs of extract-outputs.sh *)

StackOutput(key, val) ==
  Obj(<< <<K_OutputKey, Str(key)>>, <<K_OutputValue, Str(val)>> >>)

HttpH == <<"h","t","t","p",":","/","/","h">>

HttpG == <<"h","t","t","p",":","/","/","g">>

(* describe-stacks --query Stacks[0].Outputs: the stack does not exist    *)
(* (nothing printed, status 255), it has no outputs (null), or it has some *)
AwsPool ==
  { Ran(<<>>, 255),
    Ran(<<Null>>, 0),
    Ran(<<Arr(<<StackOutput(<<"F","u","n","c","t","i","o","n","A","r","n">>, <<"a","r","n">>),
                StackOutput(K_ApiUrl, HttpH)>>)>>, 0),
    Ran(<<Arr(<<StackOutput(K_Region, <<"u","s">>)>>)>>, 0) }

(* cdk-outputs.json: absent, or the outputs of each stack under its name *)
CdkFilePool ==
  { <<>>,
    <<Obj(<< <<<<"A">>, Obj(<< <<K_ApiUrl, Str(HttpH)>> >>)>>,
             <<<<"B">>, Obj(<< <<K_ApiUrl, Str(HttpG)>>,
                             <<K_Region, Str(<<"u","s">>)>> >>)>> >>)>>,
    <<Obj(<< <<<<"A">>, Obj(<< <<K_Region, Str(<<"u","s">>)>> >>)>> >>)>> }

(* an output as terraform output -json prints it; its sensitive member, a *)
(* boolean that no filter reads, is left out                              *)
TerraformOutput(type, val) ==
  Obj(<< <<K_type, Str(type)>>, <<K_value, val>> >>)

(* terraform output -json: terraform fails, there is no output, there is *)
(* a string output, or there is a list output                            *)
TerraformPool ==
  { Ran(<<>>, 1),
    Ran(<<Obj(<<>>)>>, 0),
    Ran(<<Obj(<< <<K_url, TerraformOutput(<<"s","t","r","i","n","g">>, Str(HttpH))>> >>)>>, 0),
    Ran(<<Obj(<< <<K_url, TerraformOutput(<<"s","t","r","i","n","g">>, Str(HttpH))>>,
                 <<<<"i","d","s">>, TerraformOutput(<<"l","i","s","t">>,
                              Arr(<<Str(<<"a">>), Str(<<"b">>)>>))>> >>)>>, 0) }

ServerlessState(functions) ==
  Obj(<< <<K_service,
           Obj(<< <<K_service, Str(<<"s","v","c">>)>>,
                  <<K_provider, Obj(<< <<K_stage, Str(<<"d","e","v">>)>>,
                                       <<K_region, Str(<<"u","s">>)>> >>)>>,
                  <<K_functions, Obj(functions)>> >>)>> >>)

HttpEvent ==
  Obj(<< <<K_http, Obj(<< <<<<"p","a","t","h">>, Str(<<"h","e","a","l","t","h">>)>>,
                          <<K_method, Str(<<"g","e","t">>)>> >>)>> >>)

ScheduleEvent == Obj(<< <<<<"s","c","h","e","d","u","l","e">>, Str(<<"r","a","t","e","(","1"," ","d","a","y",")">>)>> >>)

(* .serverless/serverless-state.json: absent, or the state of a service *)
(* with one function behind an HTTP event, or with a scheduled one only *)
StateFilePool ==
  { <<>>,
    <<ServerlessState(<< <<<<"h","e","l","l","o">>,
                           Obj(<< <<K_events, Arr(<<HttpEvent>>)>> >>)>> >>)>>,
    <<ServerlessState(<< <<<<"t","i","c","k">>,
                           Obj(<< <<K_events,
                                    Arr(<<ScheduleEvent>>)>> >>)>> >>)>> }

OutputsInit ==
  /\ eoIacType \in OutputsTypes \cup {"unknown", ""}
  /\ eoStackName \in {"", "stk"}
  /\ eoCdkFile \in CdkFilePool
  /\ eoStateFile \in StateFilePool
  /\ eoAws \in AwsPool
  /\ eoTerraform \in TerraformPool
  /\ eoPc = "start"
  /\ eoStdout = <<>>
  /\ eoStderr = <<>>
  /\ eoExit = <<>>

nonOutputsVars == <<coreVars, deployVars, generatorVars, callVars, extraVars>>

outputsInputs ==
  <<eoIacType, eoStackName, eoCdkFile, eoStateFile, eoAws, eoTerraform>>

(* the script ends after echo message >&2; exit 1 *)
OutputsError(message) ==
  /\ eoStderr' = Append(eoStderr, message)
  /\ eoExit' = <<1>>
  /\ eoPc' = "done"
  /\ UNCHANGED <<outputsInputs, eoStdout, nonOutputsVars>>

(* the script ends with the pipeline that closes its branch *)
OutputsPipeline(pipeline) ==
  /\ eoStdout' = eoStdout \o pipeline.out
  /\ eoExit' = <<pipeline.exit>>
  /\ eoPc' = "done"
  /\ UNCHANGED <<outputsInputs, eoStderr, nonOutputsVars>>

OutputsInvalid ==
  /\ eoPc = "start"
  /\ OutputsArgumentMissing(eoIacType, eoStackName)
  /\ OutputsError("IAC_TYPE and STACK_NAME required")

OutputsOfStack ==
  /\ eoPc = "start"
  /\ ~OutputsArgumentMissing(eoIacType, eoStackName)
  /\ eoIacType \in StackQueryTypes
  /\ OutputsPipeline(Pipe(eoAws, StackOutputsFilter))

OutputsOfCdk ==
  /\ eoPc = "start"
  /\ ~OutputsArgumentMissing(eoIacType, eoStackName)
  /\ eoIacType = "cdk"
  /\ IF eoCdkFile # <<>>
       THEN OutputsPipeline(Pipe(Ran(eoCdkFile, 0), CdkOutputsFilter))
       ELSE OutputsError("cdk-outputs.json not found")

OutputsOfTerraform ==
  /\ eoPc = "start"
  /\ ~OutputsArgumentMissing(eoIacType, eoStackName)
  /\ eoIacType = "terraform"
  /\ OutputsPipeline(Pipe(eoTerraform, TerraformOutputsFilter))

OutputsOfServerless ==
  /\ eoPc = "start"
  /\ ~OutputsArgumentMissing(eoIacType, eoStackName)
  /\ eoIacType = "serverless"
  /\ IF eoStateFile # <<>>
       THEN OutputsPipeline(Pipe(Ran(eoStateFile, 0), ServerlessStateFilter))
       ELSE OutputsPipeline(Pipe(eoAws, StackOutputsFilter))

OutputsUnsupported ==
  /\ eoPc = "start"
  /\ ~OutputsArgumentMissing(eoIacType, eoStackName)
  /\ eoIacType \notin OutputsTypes
  /\ OutputsError("Unsupported IaC type")

OutputsNext ==
  \/ OutputsInvalid
  \/ OutputsOfStack
  \/ OutputsOfCdk
  \/ OutputsOfTerraform
  \/ OutputsOfServerless
  \/ OutputsUnsupported

InitOutputs ==
  /\ OutputsInit
  /\ ExecIdle /\ SubstIdle /\ UrlIdle /\ DetectIdle /\ ExtractIdle
  /\ SynthIdle /\ DeployIdle /\ GeneratorIdle /\ CallIdle /\ ExtraIdle

SpecOutputs == InitOutputs /\ [][OutputsNext]_vars

(***************************************************************************)
(* Properties of extract-outputs.sh                                        *)
(***************************************************************************)

(* a mapping from string keys to string values *)
FlatStringMapping(v) ==
  /\ v.t = "obj"
  /\ \A i \in 1..Len(v.o) : v.o[i][2].t = "str"

(* C24: for every kind, the document extract-outputs.sh prints is a single *)
(* flat mapping from string keys to string values: no nested object, list *)
(* or {value, sensitive, type} wrapper remains as a value                  *)
C24_FlatStringOutputs ==
  \A i \in DOMAIN eoStdout : FlatStringMapping(eoStdout[i])

(* the source the kind's outputs are read from is missing: the file for   *)
(* cdk, the stack for the kinds read from CloudFormation (for serverless  *)
(* both the state file and the stack)                                     *)
SourceMissing ==
  \/ eoIacType = "cdk" /\ eoCdkFile = <<>>
  \/ eoIacType \in StackQueryTypes /\ eoAws.out = <<>>
  \/ eoIacType = "serverless" /\ eoStateFile = <<>> /\ eoAws.out = <<>>
  \/ eoIacType = "terraform" /\ eoTerraform.out = <<>>

FailsWithoutDocument ==
  /\ eoExit # <<>>
  /\ eoExit # <<0>>
  /\ eoStdout = <<>>

(* C25: extract-outputs.sh ends with a non-zero status and no document on *)
(* standard output when the source of the kind's outputs is missing, when *)
(* the kind is unsupported, or when the kind or the stack name is empty   *)
C25_FailsWithoutSource ==
  (/\ eoPc = "done"
   /\ \/ SourceMissing
      \/ eoIacType \notin OutputsTypes
      \/ eoIacType = ""
      \/ eoStackName = "")
  => FailsWithoutDocument

(* what holds of the three cases the script tests for itself *)
FailsOnTestedCases ==
  (/\ eoPc = "done"
   /\ \/ eoIacType = "cdk" /\ eoCdkFile = <<>>
      \/ eoIacType \notin OutputsTypes
      \/ eoIacType = ""
      \/ eoStackName = "")
  => FailsWithoutDocument

(***************************************************************************)
(* The generator scripts ai-generate-plan.js, ai-generate-file.js and      *)
(* ai-generate-fix.js.  Each calls callAI once and writes one file.  The   *)
(* content of a file is a JSON value: a string for a text file, the        *)
(* document that JSON.stringify printed for plan.json.                     *)
(***************************************************************************)

(* s.includes(w) *)
Includes(s, w) ==
  \E i \in 1..(Len(s) - Len(w) + 1) : SubSeq(s, i, i + Len(w) - 1) = w

(* s.endsWith(w) *)
EndsWith(s, w) ==
  Len(s) >= Len(w) /\ SubSeq(s, Len(s) - Len(w) + 1, Len(s)) = w

(* s.trim() *)
Trim(s) ==
  LET inked == {i \in 1..Len(s) : s[i] \notin WhiteSpace}
  IN IF inked = {} THEN <<>> ELSE SubSeq(s, Min(inked), Max(inked))

(* a fenced block whose opening fence is at position i and whose tag ends *)
(* before position j: <<>> or <<the text captured by \s*\n([\s\S]*?)\n    *)
(* and the closing fence>>                                                *)
FencedBodyAt(s, i, j) ==
  LET closes(n) == {k \in (n + 1)..Len(s) : StartsAt(s, k, CloseFence)}
      opens == {n \in j..(SkipWs(s, j) - 1) : s[n] = "\n" /\ closes(n) # {}}
  IN IF StartsAt(s, i, Fence) /\ opens # {}
     THEN <<SubSeq(s, Max(opens) + 1, Min(closes(Max(opens))) - 1)>>
     ELSE <<>>

FirstFencedBody(s, TagEnd(_, _)) ==
  LET starts == {i \in 1..Len(s) : FencedBodyAt(s, i, TagEnd(s, i)) # <<>>}
  IN IF starts = {} THEN <<>>
     ELSE FencedBodyAt(s, Min(starts), TagEnd(s, Min(starts)))

(* (?:diff|patch)? after the fence at position i *)
PatchTagEnd(s, i) ==
  IF StartsAt(s, i + 3, <<"d","i","f","f">>) THEN i + 7
  ELSE IF StartsAt(s, i + 3, <<"p","a","t","c","h">>) THEN i + 8
  ELSE i + 3

(* [\w]* after the fence at position i *)
WordTagEnd(s, i) == WordRunEnd(s, i + 3)

(* response.match(/FENCE(?:diff|patch)?\s*\n([\s\S]*?)\nFENCE/) *)
MatchPatchBlock(s) == FirstFencedBody(s, PatchTagEnd)

(* response.match(/FENCE[\w]*\s*\n([\s\S]*?)\nFENCE/) *)
MatchAnyBlock(s) == FirstFencedBody(s, WordTagEnd)

DiffGit == <<"d","i","f","f"," ","-","-","g","i","t">>

(* patch.match of a pattern that takes diff --git and all that follows *)
MatchDiffGit(s) ==
  LET starts == {i \in 1..Len(s) : StartsAt(s, i, DiffGit)}
  IN IF starts = {} THEN <<>> ELSE <<SubSeq(s, Min(starts), Len(s))>>

(* the text the patch is taken from: the fenced block, if there is one *)
PatchCandidate(text) ==
  IF MatchPatchBlock(text) # <<>> THEN MatchPatchBlock(text)[1] ELSE text

(* patch.includes('diff --git') || patch.includes('---') || *)
(* patch.includes('+++')                                    *)
LooksLikePatchDiffOnly(patch) == Includes(patch, DiffGit)

LooksLikePatch(patch) ==
  \/ Includes(patch, DiffGit)
  \/ Includes(patch, <<"-","-","-">>)
  \/ Includes(patch, <<"+","+","+">>)

(* the patch main extracts from the response: <<>> when it throws *)
ExtractPatch(text) ==
  IF LooksLikePatch(PatchCandidate(text))
    THEN <<Trim(PatchCandidate(text))>>
  ELSE IF MatchDiffGit(PatchCandidate(text)) # <<>>
    THEN <<Trim(MatchDiffGit(PatchCandidate(text))[1])>>
  ELSE <<>>

(* the file main writes from the response *)
ExtractFile(text) ==
  Trim(IF MatchAnyBlock(text) # <<>> THEN MatchAnyBlock(text)[1] ELSE text)

(* `\n\n=== ${logFile} ===\n${content}\n` for each log file *)
RECURSIVE LogText(_, _)
LogText(logs, i) ==
  IF i > Len(logs) THEN <<>>
  ELSE <<"\n", "\n">> \o <<"=","=","="," ">> \o logs[i][1] \o <<" ","=","=","=">> \o <<"\n">>
       \o logs[i][2] \o <<"\n">> \o LogText(logs, i + 1)

(* names.filter((f) => f.endsWith('.log')) *)
LogFilesOf(entries) == SelectSeq(entries, LAMBDA f : EndsWith(f[1], <<".","l","o","g">>))

(* readLogs(): the text of the logs, <<>> when it throws *)
readLogsEmptyText(logs) == <<(<<>>)>>

readLogs(logs) ==
  LET fromLogs == LogText(LogFilesOf(logs.dir), 1)
      fromCwd == LogText(LogFilesOf(logs.cwd), 1)
  IN IF fromLogs # <<>> THEN <<fromLogs>>
     ELSE IF fromCwd # <<>> THEN <<fromCwd>>
     ELSE <<>>

K_files == <<"f","i","l","e","s">>
K_path == <<"p","a","t","h">>
K_prompt == <<"p","r","o","m","p","t">>

(* file.path and file.prompt, where file may be any JSON value but null *)
EntryMember(entry, k) ==
  IF entry.t = "obj" THEN Get(entry.o, k) ELSE Undefined

(* the validation of ai-generate-plan.js passes; reading a property of *)
(* null throws a TypeError                                             *)
PlanValidAlways(plan) == TRUE

PlanValid(plan) ==
  /\ plan.t = "obj"
  /\ Get(plan.o, K_files).t = "arr"
  /\ Len(Get(plan.o, K_files).a) # 0
  /\ \A i \in 1..Len(Get(plan.o, K_files).a) :
       /\ Get(plan.o, K_files).a[i].t # "null"
       /\ Truthy(EntryMember(Get(plan.o, K_files).a[i], K_path))
       /\ Truthy(EntryMember(Get(plan.o, K_files).a[i], K_prompt))

PlanJson == <<"p","l","a","n",".","j","s","o","n">>

GeneratedFileTxt == <<"g","e","n","e","r","a","t","e","d","-","f","i","l","e",".","t","x","t">>

FixPatch == <<"f","i","x",".","p","a","t","c","h">>

SanityTestsJson == <<"s","a","n","i","t","y","-","t","e","s","t","s",".","j","s","o","n">>

(* the name of the file the script writes *)
ArtifactOf(stage) ==
  CASE stage = "plan" -> PlanJson
    [] stage = "file" -> GeneratedFileTxt
    [] stage = "fix" -> FixPatch

(* the try block of main runs to its end *)
Accepted(stage, r) ==
  /\ r.ok
  /\ CASE stage = "plan" ->
            /\ ~extractJSON(r.text).threw
            /\ PlanValid(extractJSON(r.text).v)
       [] stage = "file" -> TRUE
       [] stage = "fix" -> ExtractPatch(r.text) # <<>>

(* what fs.writeFileSync is given *)
ContentOf(stage, r) ==
  CASE stage = "plan" -> extractJSON(r.text).v
    [] stage = "file" -> Str(ExtractFile(r.text))
    [] stage = "fix" -> Str(ExtractPatch(r.text)[1])

InvalidPatch == "AI did not return a valid git patch"

NoErrorLogs == "No error logs found"

(* error.message of the error the catch block reports *)
ErrorOf(stage, r) ==
  IF ~r.ok THEN "AI provider error"
  ELSE CASE stage = "plan" ->
              IF extractJSON(r.text).threw THEN "SyntaxError"
              ELSE "Invalid plan"
         [] stage = "fix" -> InvalidPatch

(* the environment variables the script requires *)
RequiredEnv(stage) ==
  CASE stage = "plan" -> {"SCAFFOLD_PROMPT", "PROJECT_NAME"}
    [] stage = "file" -> {"FILE_PATH", "FILE_PROMPT"}
    [] stage = "fix" -> {}

EnvMissing(stage, env) == \E name \in RequiredEnv(stage) : env[name] = ""

(* Inputs of the generator scripts *)

MaxPatchLen == 3

ArtifactNames == {PlanJson, GeneratedFileTxt, FixPatch}

(* the file of an earlier run *)
Stale == Str(<<"o","l","d">>)

EnvPool(stage) == [RequiredEnv(stage) -> {"", "x"}]

LogEntries ==
  { <<>>,
    << <<<<"n","o","t","e","s",".","t","x","t">>, <<"n">>>> >>,
    << <<<<"d","e","p","l","o","y",".","l","o","g">>, <<"b","o","o","m">>>> >>,
    << <<<<"n","o","t","e","s",".","t","x","t">>, <<"n">>>>, <<<<"e","m","p","t","y",".","l","o","g">>, <<>> >> >> }

LogsPool == [dir : LogEntries, cwd : LogEntries]

ValidPlanText == <<"{","\"","f","i","l","e","s","\"",":"," ","[","{","\"","p","a","t","h","\"",":"," ","\"","a","\"",","," ","\"","p","r","o","m","p","t","\"",":"," ","\"","b","\"","}","]","}">>

(* what the model may answer when asked for a scaffold plan *)
PlanTexts ==
  { ValidPlanText,
    <<"p","l","a","n",":">> \o <<"\n">> \o Fence \o <<"j","s","o","n">> \o <<"\n">> \o ValidPlanText
      \o CloseFence,
    <<"{","\"","f","i","l","e","s","\"",":"," ","[","]","}">>,
    <<"{","\"","f","i","l","e","s","\"",":"," ","[","{","\"","p","a","t","h","\"",":"," ","\"","a","\"","}","]","}">>,
    <<"{","\"","f","i","l","e","s","\"",":"," ","[","n","u","l","l","]","}">>,
    <<"{","\"","f","i","l","e","s","\"",":"," ","\"","a","\"","}">>,
    <<"{","\"","n","a","m","e","\"",":"," ","\"","x","\"","}">>,
    <<"n","u","l","l">>,
    <<"n","o"," ","p","l","a","n">> }

(* what the model may answer when asked for a file *)
FileTexts ==
  { <<"x"," ","="," ","1">>,
    Fence \o <<"j","s">> \o <<"\n">> \o <<"x"," ","="," ","1">> \o CloseFence,
    <<"s","e","e"," ">> \o Fence \o <<" ", "\n", "\n">> \o <<"x"," ","="," ","1">> \o CloseFence
      \o <<" ","b","y","e">>,
    <<" ", "\n">>,
    <<>> }

(* what the model may answer when asked for a patch: every text of up to *)
(* MaxPatchLen of the characters of the markers, and some longer ones    *)
PatchTexts ==
  SeqsUpTo({"-", "+", " "}, MaxPatchLen)
  \cup
  { DiffGit \o <<" ","a","/","x"," ","b","/","x">> \o <<"\n">> \o <<"-","-","-"," ","a","/","x">> \o <<"\n">>
      \o <<"+","+","+"," ","b","/","x">>,
    Fence \o <<"d","i","f","f">> \o <<"\n">> \o <<"-","-","-"," ","a">> \o <<"\n">> \o <<"+","+","+"," ","b">>
      \o CloseFence,
    <<"f","i","x",":">> \o Fence \o <<"p","a","t","c","h">> \o <<" ", "\n">> \o DiffGit \o <<" ","a"," ","b">>
      \o CloseFence \o <<" ","d","o","n","e">>,
    Fence \o <<"\n">> \o <<"f","o","o">> \o CloseFence,
    <<"-","-","-"," ","s","e","e">> \o <<"\n">> \o Fence \o <<"\n">> \o <<"f","o","o">> \o CloseFence,
    Fence \o <<"d","i","f","f">> \o <<"\n">> \o <<"+","+","+"," ","b">>,
    <<"s","o","r","r","y">> }

ResponsesOf(stage) ==
  {GenerationFailed}
  \cup {Generated(x) :
          x \in CASE stage = "plan" -> PlanTexts
                  [] stage = "file" -> FileTexts
                  [] stage = "fix" -> PatchTexts}

GeneratorInit ==
  /\ gnStage \in {"plan", "file", "fix"}
  /\ gnEnv \in EnvPool(gnStage)
  /\ gnLogs \in IF gnStage = "fix" THEN LogsPool
                ELSE {[dir |-> <<>>, cwd |-> <<>>]}
  /\ gnArtifacts \in [ArtifactNames -> {<<>>, <<Stale>>}]
  /\ gnPc = "start"
  /\ gnAiCalls = 0
  /\ gnResponse = <<>>
  /\ gnWrites = <<>>
  /\ gnError = <<>>
  /\ gnExit = <<>>

nonGeneratorVars == <<coreVars, deployVars, outputsVars, callVars, extraVars>>

generatorInputs == <<gnStage, gnEnv, gnLogs>>

(* a required environment variable is empty: exit 1 before main *)
GenEnvMissing ==
  /\ gnPc = "start"
  /\ EnvMissing(gnStage, gnEnv)
  /\ gnExit' = <<1>>
  /\ gnPc' = "exited"
  /\ UNCHANGED <<generatorInputs, gnArtifacts, gnAiCalls, gnResponse,
                 gnWrites, gnError, nonGeneratorVars>>

(* readLogs throws: the catch block, exit 1 *)
GenNoLogs ==
  /\ gnPc = "start"
  /\ gnStage = "fix"
  /\ readLogs(gnLogs) = <<>>
  /\ gnError' = <<NoErrorLogs>>
  /\ gnExit' = <<1>>
  /\ gnPc' = "exited"
  /\ UNCHANGED <<generatorInputs, gnArtifacts, gnAiCalls, gnResponse,
                 gnWrites, nonGeneratorVars>>

(* callAI is called with the prompts *)
GenCallAI ==
  /\ gnPc = "start"
  /\ ~EnvMissing(gnStage, gnEnv)
  /\ gnStage = "fix" => readLogs(gnLogs) # <<>>
  /\ gnAiCalls' = gnAiCalls + 1
  /\ gnPc' = "callAI"
  /\ UNCHANGED <<generatorInputs, gnArtifacts, gnResponse, gnWrites,
                 gnError, gnExit, nonGeneratorVars>>

(* callAI rejects, or what follows it throws: the catch block, exit 1 *)
GenFails ==
  /\ gnPc = "callAI"
  /\ \E r \in ResponsesOf(gnStage) :
       /\ ~Accepted(gnStage, r)
       /\ gnResponse' = <<r>>
       /\ gnError' = <<ErrorOf(gnStage, r)>>
  /\ gnExit' = <<1>>
  /\ gnPc' = "exited"
  /\ UNCHANGED <<generatorInputs, gnArtifacts, gnAiCalls, gnWrites,
                 nonGeneratorVars>>

(* the file is written and main returns *)
GenWrites ==
  /\ gnPc = "callAI"
  /\ \E r \in ResponsesOf(gnStage) :
       /\ Accepted(gnStage, r)
       /\ gnResponse' = <<r>>
       /\ gnArtifacts' =
            [gnArtifacts EXCEPT ![ArtifactOf(gnStage)] =
                                  <<ContentOf(gnStage, r)>>]
  /\ gnWrites' = Append(gnWrites, ArtifactOf(gnStage))
  /\ gnExit' = <<0>>
  /\ gnPc' = "exited"
  /\ UNCHANGED <<generatorInputs, gnAiCalls, gnError, nonGeneratorVars>>

GeneratorNext ==
  \/ GenEnvMissing
  \/ GenNoLogs
  \/ GenCallAI
  \/ GenFails
  \/ GenWrites

(* one of the four generator scripts runs: one of the three above, or *)
(* ai-generate-tests.js                                               *)
GeneratorsNext == GeneratorNext \/ SynthNext

InitGenerators ==
  /\ SubstIdle /\ UrlIdle /\ DetectIdle /\ ExtractIdle
  /\ DeployIdle /\ OutputsIdle /\ CallIdle /\ ExtraIdle
  /\ \/ GeneratorInit /\ ExecIdle /\ SynthIdle
     \/ TestInit /\ GeneratorIdle

SpecGenerators == InitGenerators /\ [][GeneratorsNext]_vars

(***************************************************************************)
(* Properties of the generator scripts                                     *)
(***************************************************************************)

PatchMarkers == {DiffGit, <<"-","-","-">>, <<"+","+","+">>}

(* the response with its fenced code block stripped: the text inside the *)
(* first fenced block, the whole response when there is none             *)
StrippedResponse(text) ==
  IF MatchPatchBlock(text) = <<>> THEN text ELSE MatchPatchBlock(text)[1]

HasMarker(text) == \E marker \in PatchMarkers : Includes(text, marker)

(* the fix generator has ended after callAI resolved with a text *)
FixEndedWithResponse ==
  /\ gnStage = "fix"
  /\ gnPc = "exited"
  /\ gnResponse # <<>>
  /\ gnResponse[1].ok

(* C26: given a successful AI response, the fix generator writes fix.patch *)
(* if and only if the response text, a fenced code block stripped, holds   *)
(* one of diff --git, --- and +++; otherwise it fails with the             *)
(* invalid-patch error, exits non-zero and writes no fix.patch             *)
C26_PatchWrittenIffMarker ==
  FixEndedWithResponse =>
    IF HasMarker(StrippedResponse(gnResponse[1].text))
      THEN /\ gnWrites = <<FixPatch>>
           /\ gnArtifacts[FixPatch] # <<>>
           /\ HasMarker(gnArtifacts[FixPatch][1].s)
           /\ gnExit = <<0>>
      ELSE /\ gnWrites = <<>>
           /\ gnError = <<InvalidPatch>>
           /\ gnExit # <<0>>
           /\ gnExit # <<>>

(* a response whose fenced block holds no marker, with a marker outside *)
(* the block: no patch is written                                       *)
C26_Witness ==
  /\ FixEndedWithResponse
  /\ HasMarker(gnResponse[1].text)
  /\ ~HasMarker(StrippedResponse(gnResponse[1].text))
  /\ gnExit = <<1>>

(* no file named *.log under logs/ and none in the working directory *)
NoLogArtifact ==
  /\ \A i \in DOMAIN gnLogs.dir : ~EndsWith(gnLogs.dir[i][1], <<".","l","o","g">>)
  /\ \A i \in DOMAIN gnLogs.cwd : ~EndsWith(gnLogs.cwd[i][1], <<".","l","o","g">>)

(* C27: when no log artifact exists, the fix generator fails with the *)
(* no-logs error before any call of callAI, exits non-zero and writes *)
(* no fix.patch                                                       *)
C27_NoLogsNoCall ==
  (gnStage = "fix" /\ NoLogArtifact) =>
    /\ gnAiCalls = 0
    /\ gnWrites = <<>>
    /\ gnPc \in {"start", "exited"}
    /\ gnPc = "exited" =>
         /\ gnError = <<NoErrorLogs>>
         /\ gnExit # <<0>>
         /\ gnExit # <<>>

(* the fix generator has ended in a directory that holds files, none of *)
(* them a log                                                           *)
C27_Witness ==
  /\ gnStage = "fix"
  /\ NoLogArtifact
  /\ gnLogs.dir # <<>>
  /\ gnPc = "exited"
  /\ gnExit = <<1>>

(* the document is a scaffold plan: an object whose files member is an *)
(* array, not empty, of objects that each have a path and a prompt     *)
IsScaffoldPlan(v) ==
  /\ v.t = "obj"
  /\ HasOwn(v.o, K_files)
  /\ OwnGet(v.o, K_files).t = "arr"
  /\ OwnGet(v.o, K_files).a # <<>>
  /\ \A i \in DOMAIN OwnGet(v.o, K_files).a :
       LET entry == OwnGet(v.o, K_files).a[i]
       IN /\ entry.t = "obj"
          /\ \A k \in {K_path, K_prompt} :
               HasOwn(entry.o, k) /\ Truthy(OwnGet(entry.o, k))

(* the gateway call resolved with this text, and the extraction and the *)
(* validation the stage has succeed on it                               *)
StageSucceeds(stage, text) ==
  CASE stage = "plan" ->
         ~extractJSON(text).threw /\ IsScaffoldPlan(extractJSON(text).v)
    [] stage = "file" -> TRUE
    [] stage = "fix" -> HasMarker(StrippedResponse(text))
    [] stage = "tests" ->
         /\ ~extractJSON(text).threw
         /\ extractJSON(text).v.t = "obj"
         /\ HasOwn(extractJSON(text).v.o, K_tests)
         /\ OwnGet(extractJSON(text).v.o, K_tests).t = "arr"

(* a step of the plan, file or fix generator that changes an artifact *)
(* is its only write, of its own artifact, after a call of callAI     *)
(* that resolved with a text the stage accepts, and ends the run with *)
(* exit status 0                                                      *)
GeneratorWritesOnSuccess ==
  gnArtifacts' # gnArtifacts =>
    /\ \A name \in ArtifactNames \ {ArtifactOf(gnStage)} :
         gnArtifacts'[name] = gnArtifacts[name]
    /\ gnWrites = <<>>
    /\ gnAiCalls = 1
    /\ gnResponse' # <<>>
    /\ gnResponse'[1].ok
    /\ StageSucceeds(gnStage, gnResponse'[1].text)
    /\ gnPc' = "exited"
    /\ gnExit' = <<0>>
    /\ files' = files

(* the same of the test-plan generator and sanity-tests.json *)
SynthWritesOnSuccess ==
  files' # files =>
    /\ files'.outputs = files.outputs
    /\ gPc = "callAI"
    /\ aiCalls = 1
    /\ gResponse' # <<>>
    /\ gResponse'[1].ok
    /\ StageSucceeds("tests", gResponse'[1].text)
    /\ gPc' = "exited"
    /\ gExit' = <<0>>
    /\ gnArtifacts' = gnArtifacts

(* a stage that has ended writes no more *)
NoWriteAfterExit ==
  (gnPc = "exited" \/ gPc = "exited") =>
    gnArtifacts' = gnArtifacts /\ files' = files

(* a stage that ends without a write ends with a non-zero exit status *)
FailureExitsNonZero ==
  /\ (gnPc # "exited" /\ gnPc' = "exited" /\ gnArtifacts' = gnArtifacts)
       => (gnExit' # <<>> /\ gnExit' # <<0>>)
  /\ (gPc # "exited" /\ gPc' = "exited" /\ files' = files)
       => (gExit' # <<>> /\ gExit' # <<0>>)

(* C28: each generator stage (plan -> plan.json, file ->                  *)
(* generated-file.txt, test plan -> sanity-tests.json, fix -> fix.patch)  *)
(* writes only its own artifact, at most once in a run, and only after    *)
(* the gateway call, the extraction and the validation succeeded; if one  *)
(* of them fails the stage exits non-zero and every artifact is unchanged *)
C28_OwnArtifactOnSuccess ==
  [][/\ GeneratorWritesOnSuccess
     /\ SynthWritesOnSuccess
     /\ NoWriteAfterExit
     /\ FailureExitsNonZero]_vars

(* the plan generator has written plan.json and left the fix.patch of an *)
(* earlier run as it was                                                 *)
C28_Witness ==
  /\ gnStage = "plan"
  /\ gnWrites = <<PlanJson>>
  /\ gnArtifacts[PlanJson] # <<Stale>>
  /\ gnArtifacts[FixPatch] = <<Stale>>
  /\ gnExit = <<0>>

(***************************************************************************)
(* callAI of scripts/ai-client.js: the choice of the backend               *)
(***************************************************************************)

DefaultModel == <<"b","e","d","r","o","c","k","/","a","m","a","z","o","n",".","n","o","v","a","-","p","r","o","-","v","1",":","0">>

(* process.env.AI_MODEL || 'bedrock/amazon.nova-pro-v1:0' *)
AI_MODEL(env) == IF env.AI_MODEL = <<>> THEN DefaultModel ELSE env.AI_MODEL

(* modelString.split('/', 2)[0]: what precedes the first slash *)
RECURSIVE FirstPart(_)
FirstPart(s) ==
  IF s = <<>> \/ Head(s) = "/" THEN <<>>
  ELSE <<Head(s)>> \o FirstPart(Tail(s))

(* parseModel(modelString).provider *)
ProviderAsWritten(modelString) == FirstPart(modelString)

Provider(modelString) == toLowerCase(FirstPart(modelString))

(* the cases of the switch and the function each one calls *)
BackendCases ==
  << <<<<"b","e","d","r","o","c","k">>, "callBedrock">>,
     <<<<"o","p","e","n","a","i">>, "callOpenAI">>,
     <<<<"a","n","t","h","r","o","p","i","c">>, "callAnthropic">>,
     <<<<"a","z","u","r","e">>, "callAzureOpenAI">> >>

(* <<>> for the default case, or <<the function called>> *)
BackendFor(provider) ==
  LET hits == {i \in DOMAIN BackendCases : BackendCases[i][1] = provider}
  IN IF hits = {} THEN <<>> ELSE <<BackendCases[Min(hits)][2]>>

(* the environment variables a backend requires before its request *)
Credentials(backend) ==
  CASE backend = "callBedrock" -> {}
    [] backend = "callOpenAI" -> {"AI_API_KEY"}
    [] backend = "callAnthropic" -> {"AI_API_KEY"}
    [] backend = "callAzureOpenAI" -> {"AI_API_KEY", "AI_ENDPOINT"}

CallResolved(text) == [ok |-> TRUE, text |-> text, error |-> ""]

CallRejected(error) == [ok |-> FALSE, text |-> <<>>, error |-> error]

UnsupportedProvider == "Unsupported AI provider"

(* Inputs: a provider name, as written, and what follows it *)
ProviderNames ==
  { <<"b","e","d","r","o","c","k">>, <<"B","e","d","r","o","c","k">>, <<"o","p","e","n","a","i">>, <<"O","p","e","n","A","I">>, <<"O","P","E","N","A","I">>,
    <<"a","n","t","h","r","o","p","i","c">>, <<"A","n","t","h","r","o","p","i","c">>, <<"a","z","u","r","e">>, <<"A","Z","U","R","E">>, <<"g","e","m","i","n","i">>,
    <<"a","z","u","r">>, <<"a","z","u","r","e","o","p","e","n","a","i">>, <<" ","o","p","e","n","a","i">>, <<"o","p","e","n","-","a","i">>, <<>> }

ModelSuffixes == { <<>>, <<"/">>, <<"/","m">>, <<"/","m","/","v","1">> }

ModelStrings ==
  {name \o suffix : name \in ProviderNames, suffix \in ModelSuffixes}

CallInit ==
  /\ caEnv \in [AI_MODEL : ModelStrings,
                AI_API_KEY : {<<>>, <<"k">>},
                AI_ENDPOINT : {<<>>, <<"e">>}]
  /\ caPc = "start"
  /\ caBackends = <<>>
  /\ caOutcome = <<>>

nonCallVars == <<coreVars, deployVars, outputsVars, generatorVars, extraVars>>

(* the default case of the switch *)
CallUnsupported ==
  /\ caPc = "start"
  /\ BackendFor(Provider(AI_MODEL(caEnv))) = <<>>
  /\ caOutcome' = <<CallRejected(UnsupportedProvider)>>
  /\ caPc' = "settled"
  /\ UNCHANGED <<caEnv, caBackends, nonCallVars>>

(* a case of the switch calls its backend *)
CallDispatch ==
  /\ caPc = "start"
  /\ BackendFor(Provider(AI_MODEL(caEnv))) # <<>>
  /\ caBackends' = caBackends \o BackendFor(Provider(AI_MODEL(caEnv)))
  /\ caPc' = "backend"
  /\ UNCHANGED <<caEnv, caOutcome, nonCallVars>>

(* the backend throws for want of a credential *)
BackendUnconfigured ==
  /\ caPc = "backend"
  /\ \E name \in Credentials(caBackends[Len(caBackends)]) :
       caEnv[name] = <<>>
  /\ caOutcome' = <<CallRejected("credentials required")>>
  /\ caPc' = "settled"
  /\ UNCHANGED <<caEnv, caBackends, nonCallVars>>

(* the request of the backend settles: with a text, or with an error *)
BackendSettles ==
  /\ caPc = "backend"
  /\ \A name \in Credentials(caBackends[Len(caBackends)]) :
       caEnv[name] # <<>>
  /\ caOutcome' \in {<<CallResolved(<<"o","k">>)>>,
                     <<CallRejected("API call failed")>>}
  /\ caPc' = "settled"
  /\ UNCHANGED <<caEnv, caBackends, nonCallVars>>

CallNext ==
  \/ CallUnsupported
  \/ CallDispatch
  \/ BackendUnconfigured
  \/ BackendSettles

InitCall ==
  /\ CallInit
  /\ ExecIdle /\ SubstIdle /\ UrlIdle /\ DetectIdle /\ ExtractIdle
  /\ SynthIdle /\ DeployIdle /\ OutputsIdle /\ GeneratorIdle /\ ExtraIdle

SpecCall == InitCall /\ [][CallNext]_vars

(***************************************************************************)
(* Properties of callAI                                                    *)
(***************************************************************************)

(* the two names are the same but for the case of their letters *)
SameButForCase(a, b) ==
  /\ Len(a) = Len(b)
  /\ \A i \in 1..Len(a) :
       \/ a[i] = b[i]
       \/ \E j \in 1..26 : {a[i], b[i]} = {UpperCase[j], LowerCase[j]}

(* what precedes the first slash of the model string in use *)
ProviderPrefix ==
  LET s == IF caEnv.AI_MODEL = <<>> THEN DefaultModel ELSE caEnv.AI_MODEL
      slashes == {i \in 1..Len(s) : s[i] = "/"}
  IN IF slashes = {} THEN s ELSE SubSeq(s, 1, Min(slashes) - 1)

BackendOfProvider ==
  [p \in {<<"b","e","d","r","o","c","k">>, <<"o","p","e","n","a","i">>, <<"a","n","t","h","r","o","p","i","c">>, <<"a","z","u","r","e">>} |->
     CASE p = <<"b","e","d","r","o","c","k">> -> "callBedrock"
       [] p = <<"o","p","e","n","a","i">> -> "callOpenAI"
       [] p = <<"a","n","t","h","r","o","p","i","c">> -> "callAnthropic"
       [] p = <<"a","z","u","r","e">> -> "callAzureOpenAI"]

(* C29: callAI dispatches to exactly one backend, chosen by the       *)
(* lower-cased provider prefix of the provider/model string (bedrock, *)
(* openai, anthropic or azure), and for any other provider fails with *)
(* the unsupported-provider error without calling any backend         *)
C29_OneBackendByProvider ==
  caPc \in {"backend", "settled"} =>
    IF \E p \in DOMAIN BackendOfProvider : SameButForCase(ProviderPrefix, p)
      THEN \E p \in DOMAIN BackendOfProvider :
             /\ SameButForCase(ProviderPrefix, p)
             /\ caBackends = <<BackendOfProvider[p]>>
      ELSE /\ caBackends = <<>>
           /\ caOutcome = <<CallRejected(UnsupportedProvider)>>

(* a provider written in capitals, with a model, has been dispatched *)
C29_Witness ==
  /\ caPc = "settled"
  /\ caEnv.AI_MODEL = <<"A","Z","U","R","E","/","m">>
  /\ caBackends = <<"callAzureOpenAI">>
  /\ caOutcome[1].ok


----------------------------------------------------------------------------
(* The deployment pipeline: the deploy job runs detect-iac.sh,             *)
(* run-deployment.sh and extract-outputs.sh in the checked-out directory   *)
(* and saves outputs.json; the test job, which needs the deploy job, runs  *)
(* ai-generate-tests.js and execute-tests.js on it.                        *)

(* the names run-deployment.sh tests with [ -f ], as the detector sees them *)
FileNames ==
  { <<"template.yaml", F_template_yaml>>, <<"template.yml", F_template_yml>>,
    <<"package.json", F_package_json>>, <<"serverless.yml", F_serverless_yml>>,
    <<"cloudformation.yaml", F_cloudformation_yaml>>,
    <<"cloudformation.yml", F_cloudformation_yml>>,
    <<"stack.yaml", F_stack_yaml>>, <<"stack.yml", F_stack_yml>> }

(* the files of the directory the deployment finds *)
FilesIn(d) == {n[1] : n \in {m \in FileNames : m[2] \in DOMAIN d}}

(* STACK_NAME="sdlc-${GITHUB_RUN_ID}": never empty, and new with each run *)
PipelineStackName == "stk"

(* Inputs of a pipeline run: the project checked out, and what the tools   *)
(* and services answer                                                     *)
ProjectOf(names, template) ==
  [name \in names |-> IF name = F_template_yaml THEN template ELSE <<>>]

SamProject == ProjectOf({F_template_yaml, F_package_json, F_index_js}, SamTemplate)

PipelineDirs ==
  { SamProject,
    ProjectOf({F_template_yaml}, PlainTemplate),
    ProjectOf({F_index_js, F_package_json}, <<>>),
    ProjectOf({F_cdk_json, F_package_json}, <<>>),
    ProjectOf({F_main_tf}, <<>>),
    ProjectOf({F_serverless_yml, F_package_json}, <<>>),
    ProjectOf({}, <<>>) }

HttpsApi == <<"h","t","t","p","s",":","/","/","a">>

FunctionArnAndApiUrl ==
  Ran(<<Arr(<<StackOutput(<<"F","u","n","c","t","i","o","n","A","r","n">>, <<"a","r","n">>),
              StackOutput(K_ApiUrl, HttpsApi)>>)>>, 0)

PipelineAwsPool == AwsPool \cup {FunctionArnAndApiUrl}

(* the Outputs section of the template the lambda branch writes, with what *)
(* !GetAtt Function.Arn and !Ref Function stand for in the deployed stack  *)
LambdaTemplateOutputsWithApi ==
  << <<<<"F","u","n","c","t","i","o","n","A","r","n">>, <<"a","r","n",":","a","w","s",":","l","a","m","b","d","a",":","u","s","-","e","a","s","t","-","1",":","1",":","f","u","n","c","t","i","o","n",":","s","t","k","-","F","u","n","c","t","i","o","n","-","1">>>>,
     <<K_ApiUrl, HttpsApi>> >>

LambdaTemplateOutputs ==
  << <<<<"F","u","n","c","t","i","o","n","A","r","n">>, <<"a","r","n",":","a","w","s",":","l","a","m","b","d","a",":","u","s","-","e","a","s","t","-","1",":","1",":","f","u","n","c","t","i","o","n",":","s","t","k","-","F","u","n","c","t","i","o","n","-","1">>>>,
     <<<<"F","u","n","c","t","i","o","n","N","a","m","e">>, <<"s","t","k","-","F","u","n","c","t","i","o","n","-","1">>>> >>

(* describe-stacks --query Stacks[0].Outputs of a stack with these outputs *)
Described(outs) ==
  Ran(<<Arr([i \in 1..Len(outs) |-> StackOutput(outs[i][1], outs[i][2])])>>, 0)

(* what describe-stacks answers for the stack of a lambda run: the call    *)
(* fails, or the stack has the outputs its template declares               *)
LambdaStackPool == {Ran(<<>>, 255), Described(LambdaTemplateOutputs)}

PipelineInit ==
  /\ dir \in PipelineDirs
  /\ dCalls = <<>>

(* deploy job: Detects IaC type *)
PipelineDetect ==
  /\ dCalls = <<>>
  /\ Detect

(* deploy job: Runs deployment, with the detected type and the stack name  *)
(* of the run; a step that failed ends the job                             *)
PipelineDeploy ==
  /\ dCalls # <<>>
  /\ dCalls[1].exit = 0
  /\ rdPc = "idle"
  /\ rdIacType' = dCalls[1].kind
  /\ rdStackName' = PipelineStackName
  /\ rdFiles' = FilesIn(dir)
  /\ rdUnchanged' = FALSE
  /\ rdFaults' \in BOOLEAN
  /\ rdPc' = "start"
  /\ UNCHANGED <<rdTodo, rdRan, rdLog, rdExit, nonDeployVars>>

(* deploy job: Extracts outputs, after a deployment that succeeded; the    *)
(* tool or file of the branch answers                                      *)
PipelineExtract ==
  /\ rdPc = "done"
  /\ rdExit = <<0>>
  /\ eoPc = "idle"
  /\ eoIacType' = rdIacType
  /\ eoStackName' = rdStackName
  /\ eoAws' \in IF rdIacType = "lambda" THEN LambdaStackPool
                ELSE IF rdIacType \in StackQueryTypes \cup {"serverless"}
                  THEN PipelineAwsPool ELSE {<<>>}
  /\ eoCdkFile' \in IF "cdk-outputs.json" \in rdFiles
                      THEN CdkFilePool \ {<<>>} ELSE {<<>>}
  /\ eoStateFile' \in IF rdIacType = "serverless" THEN StateFilePool ELSE {<<>>}
  /\ eoTerraform' \in IF rdIacType = "terraform" THEN TerraformPool ELSE {<<>>}
  /\ eoPc' = "start"
  /\ UNCHANGED <<eoStdout, eoStderr, eoExit, nonOutputsVars>>

(* extract-outputs.sh ended with status 0 and its standard output is       *)
(* outputs.json                                                            *)
OutputsSaved == eoPc = "done" /\ eoExit = <<0>> /\ gPc = "idle"

(* test job: Downloads deployment outputs and calls ai-generate-tests.js   *)
PipelineTest ==
  /\ OutputsSaved
  /\ eoStdout # <<>>
  /\ eoStdout[1].t = "obj"
  /\ files' = [files EXCEPT !.outputs = <<eoStdout[1].o>>]
  /\ gPc' = "main"
  /\ UNCHANGED <<execLocals, gApiUrl, aiCalls, gResponse, gExit, substVars,
                 urlVars, detectVars, extractVars, stageVars>>

(* test job on an outputs.json without a document: JSON.parse throws       *)
(* before the try block of ai-generate-tests.js                            *)
PipelineTestUnparsed ==
  /\ OutputsSaved
  /\ eoStdout = <<>>
  /\ gExit' = <<1>>
  /\ gPc' = "exited"
  /\ UNCHANGED <<execVars, gApiUrl, aiCalls, gResponse, substVars, urlVars,
                 detectVars, extractVars, stageVars>>

(* test job: Executes tests, after a synthesis that succeeded *)
PipelineExecute ==
  /\ gExit = <<0>>
  /\ RunExecuteTests

(* The steps of a run. Three ends of the scripts cannot be reached from    *)
(* the jobs: a type the detector names always has its template, and a      *)
(* synthesis that succeeded has left a plan and outputs with a URL.        *)
PipelineNext ==
  \/ PipelineDetect
  \/ PipelineDeploy
  \/ DeployBranch
  \/ DeployRun
  \/ DeployCompleted
  \/ PipelineExtract
  \/ OutputsOfStack
  \/ OutputsOfCdk
  \/ OutputsOfTerraform
  \/ OutputsOfServerless
  \/ PipelineTest
  \/ PipelineTestUnparsed
  \/ SynthNoApiUrl
  \/ SynthCallAI
  \/ SynthFails
  \/ SynthWrites
  \/ PipelineExecute
  \/ MainStart
  \/ SuiteStart
  \/ StepIssue
  \/ StepSettle
  \/ DelayElapsed
  \/ StepsDone
  \/ SuiteEnd
  \/ Summary

InitPipeline ==
  PipelineInit /\ ExecIdle /\ SubstIdle /\ UrlIdle /\ ExtractIdle /\ SynthIdle
  /\ StageIdle

SpecPipeline == InitPipeline /\ [][PipelineNext]_vars


----------------------------------------------------------------------------
(* Properties of the deployment pipeline *)

(* the run of the SAM project whose tools exit with 0 *)
SamRun == dir = SamProject /\ ~rdFaults

(* the stack answered with FunctionArn and ApiUrl *)
StackDescribed == eoPc # "idle" /\ eoAws = FunctionArnAndApiUrl

(* the model answered with the plan of one GET /health expecting 200 *)
HealthPlanSynthesized == gResponse = <<Generated(PlanWithHealthCheck)>>

(* the request was answered with status 200 *)
Observed200 == response # <<>> /\ response[1].kind = "resolved" /\ response[1].status = 200

SubCommands(ran) == [i \in 1..Len(ran) |-> <<ran[i].command.tool, ran[i].command.args[1]>>]

FlatOutputs ==
  Obj(<< <<<<"F","u","n","c","t","i","o","n","A","r","n">>, Str(<<"a","r","n">>)>>, <<K_ApiUrl, Str(HttpsApi)>> >>)

HealthUrl == HttpsApi \o <<"/","h","e","a","l","t","h">>

(* C30: in the run of a directory with a SAM template.yaml whose tools     *)
(* succeed, the detector answers sam; the deployment runs sam build, then  *)
(* sam deploy, and ends with 0; with stack outputs FunctionArn and an      *)
(* https ApiUrl the extraction prints the flat document of the two and     *)
(* ends with 0, and the synthesis resolves the API URL to ApiUrl; with a   *)
(* synthesized plan of one GET /health step expecting 200 the executor     *)
(* issues that one GET to ApiUrl/health, and when 200 is observed the run  *)
(* ends with the summary total 1, passed 1, failed 0 and exit status 0.    *)
C30_SamRunEndToEnd ==
  SamRun =>
    /\ dCalls # <<>> => dCalls = <<Detected("sam")>>
    /\ rdPc # "idle" => rdIacType = "sam"
    /\ rdPc = "done" =>
         /\ SubCommands(rdRan) = << <<"sam", "build">>, <<"sam", "deploy">> >>
         /\ rdExit = <<0>>
    /\ (StackDescribed /\ eoPc = "done") =>
         /\ eoExit = <<0>>
         /\ eoStdout = <<FlatOutputs>>
    /\ (StackDescribed /\ gPc \in {"callAI", "exited"}) => gApiUrl = Str(HttpsApi)
    /\ (StackDescribed /\ HealthPlanSynthesized) =>
         /\ gExit = <<0>>
         /\ pc \notin {"idle", "main"} => baseUrl = Str(HttpsApi)
         /\ request # <<>> =>
              /\ issued = {<<1, 1>>}
              /\ request[1].method = <<"g","e","t">>
              /\ request[1].url = HealthUrl
         /\ (Observed200 /\ pc = "exited") =>
              /\ summary = <<[total |-> 1, passed |-> 1, failed |-> 0]>>
              /\ exitCode = <<0>>
         /\ (Observed200 /\ pc # "exited") => exitCode = <<>>

(* the run of the scenario has ended with the summary and exit status 0 *)
C30_Witness ==
  /\ SamRun
  /\ StackDescribed
  /\ HealthPlanSynthesized
  /\ Observed200
  /\ pc = "exited"
  /\ rdRan # <<>>
  /\ summary # <<>>
  /\ exitCode = <<0>>


----------------------------------------------------------------------------
(* Further properties of the deployment-type detector *)

(* both template files exist and only template.yml holds the transform *)
OnlyYmlIsSam ==
  /\ Templates \subseteq Names
  /\ SamTemplates = {F_template_yml}

(* C33: every call returns sam when a template.yaml or a template.yml      *)
(* exists whose contents contain AWS::Serverless, also when both files     *)
(* exist and only template.yml contains it.                                *)
C33_SamForAnySamTemplate ==
  SamTemplates # {} =>
    \A i \in 1..Len(dCalls) : dCalls[i] = Detected("sam")

(* the calls answer sam in every directory with a SAM template but the one *)
(* where a template.yaml without the transform stands before template.yml  *)
SamButWhenYmlIsHidden ==
  (SamTemplates # {} /\ ~OnlyYmlIsSam) =>
    \A i \in 1..Len(dCalls) : dCalls[i] = Detected("sam")


----------------------------------------------------------------------------
(* Further properties of extractJSON *)

(* the prose the text has around the embedded object, when it is one of    *)
(* the embedded texts                                                      *)
ProseAround(text) ==
  {p \in SeqsUpTo(ProseAlphabet, MaxProse) \X SeqsUpTo(ProseAlphabet, MaxProse) :
     text = Embedded(p[1], p[2])}

(* the call took the second strategy and returned the embedded object *)
ReturnsEmbeddedObject(out) ==
  /\ MatchCodeBlock(xText) = <<>>
  /\ MatchBraces(xText) # <<>>
  /\ out = Returns(JSONParse(EmbeddedObject).v)

(* C34, as stated: on a text without a fenced block that holds a valid     *)
(* JSON object in prose the call returns that object by the brace-span     *)
(* strategy, whatever the prose is.                                        *)
C34_EmbeddedObjectReturned ==
  (xOut # <<>> /\ ProseAround(xText) # {}) => ReturnsEmbeddedObject(xOut[1])

(* no { before the object and no } after it *)
NoBraceOutside(p) ==
  /\ \A i \in 1..Len(p[1]) : p[1][i] # "{"
  /\ \A i \in 1..Len(p[2]) : p[2][i] # "}"

(* C34, amended: on a text without a fenced block that holds a valid JSON  *)
(* object in prose with no { before the object and no } after it, the      *)
(* call returns that object by the brace-span strategy.                    *)
C34_EmbeddedObjectInBraceFreeProse ==
  (xOut # <<>> /\ \E p \in ProseAround(xText) : NoBraceOutside(p))
    => ReturnsEmbeddedObject(xOut[1])

(* the object came back from between a } before it and a { after it *)
C34_Witness ==
  /\ xText = Embedded(<<"}">>, <<"{">>)
  /\ xOut # <<>>
  /\ xOut[1] = Returns(Obj(<< <<<<"a">>, Obj(<< <<<<"b">>, Num(1)>> >>)>> >>))

(* a { in the prose before the object: the span does not parse *)
BraceBeforeThrows ==
  /\ xText = Embedded(<<"{">>, <<>>)
  /\ xOut = <<Throws>>


----------------------------------------------------------------------------
(* getNestedValue on its own: a body, a path, and the calls with the path  *)
(* as it is and with response. before it                                   *)

ResponseDot == <<"r","e","s","p","o","n","s","e",".">>

MaxSegments == 2

Segments == {K_id, K_data, <<"r","e","s","p","o","n","s","e">>, <<"x">>, <<"0">>, <<"l","e","n","g","t","h">>, <<>>}

RECURSIVE JoinDots(_)
JoinDots(parts) ==
  IF Len(parts) = 1 THEN parts[1]
  ELSE parts[1] \o <<".">> \o JoinDots(Tail(parts))

PathPool == {JoinDots(parts) : parts \in SeqsUpTo(Segments, MaxSegments) \ {<<>>}}

NestedBodies ==
  { Body1,
    Obj(<< <<<<"r","e","s","p","o","n","s","e">>, Obj(<< <<K_id, Num(1)>> >>)>>, <<K_id, Num(2)>> >>),
    Arr(<<Body2>>),
    Str(<<"o","k">>),
    Null }

NestedInit ==
  /\ nvObj \in NestedBodies
  /\ nvPath \in PathPool
  /\ nvCalls = <<>>

nonNestedVars == <<coreVars, deployVars, outputsVars, generatorVars, callVars,
    hubVars>>

Called(path) == \E i \in 1..Len(nvCalls) : nvCalls[i].path = path

(* getNestedValue(response.data, path) *)
CallGetNestedValue(path) ==
  /\ ~Called(path)
  /\ nvCalls' = Append(nvCalls, [path |-> path, value |-> getNestedValue(nvObj, path)])
  /\ UNCHANGED <<nvObj, nvPath, nonNestedVars>>

ResolveBare == CallGetNestedValue(nvPath)

ResolvePrefixed == CallGetNestedValue(ResponseDot \o nvPath)

NestedNext == ResolveBare \/ ResolvePrefixed

InitNested ==
  /\ NestedInit
  /\ ExecIdle /\ SubstIdle /\ UrlIdle /\ DetectIdle /\ ExtractIdle /\ SynthIdle
  /\ DeployIdle /\ OutputsIdle /\ GeneratorIdle /\ CallIdle /\ HubIdle

SpecNested == InitNested /\ [][NestedNext]_vars

----------------------------------------------------------------------------
(* Properties of getNestedValue *)

ValueOf(path) == nvCalls[CHOOSE i \in 1..Len(nvCalls) : nvCalls[i].path = path].value

BothCalled == Called(nvPath) /\ Called(ResponseDot \o nvPath)

(* the first segment of the path is not in the body *)
FirstSegmentMissing ==
  ~(IsObjectLike(nvObj) /\ PartIn(nvObj, Split(StripResponse(nvPath))[1]))

(* a call with a missing first segment returned undefined *)
MissingIsUndefined ==
  (Called(nvPath) /\ FirstSegmentMissing) => ValueOf(nvPath) = Undefined

StartsWithResponseDot(path) ==
  Len(path) >= Len(ResponseDot) /\ SubSeq(path, 1, Len(ResponseDot)) = ResponseDot

PrefixStrippedOnce ==
  /\ nvPath = <<"r","e","s","p","o","n","s","e",".","i","d">>
  /\ BothCalled
  /\ ValueOf(nvPath) = Num(2)
  /\ ValueOf(ResponseDot \o nvPath) = Num(1)


----------------------------------------------------------------------------
(* Further properties of the test execution engine *)

(* the requests issued whose result has not been counted yet *)
InFlight ==
  {q \in issued : \A t \in results : ~(t[1] = q[1] /\ t[2] = q[2])}

(* q comes after every request issued so far, in the order of the plan *)
AfterAllIssued(q) ==
  \A p \in issued : p[1] < q[1] \/ (p[1] = q[1] /\ p[2] < q[2])

(* a request is issued: none is in flight, it is the next of the plan, it  *)
(* is built from the variables as they stand, and the step before it in    *)
(* the suite has passed                                                    *)
IssuedInTurn ==
  issued' # issued =>
    /\ InFlight = {}
    /\ pc = "steps"
    /\ \E q \in issued' \ issued :
         /\ issued' = issued \cup {q}
         /\ q = <<suiteIdx, stepIdx>>
         /\ AfterAllIssued(q)
         /\ q[2] > 1 => Passed(q[1], q[2] - 1)
    /\ request' = <<BuildRequest(CurrentStep, variables, baseUrl)>>

(* the response is evaluated and the variables are stored in the step that *)
(* ends the wait, and a step that passed is followed by the delay          *)
EvaluatedThenDelayed ==
  (pc = "await" /\ pc' # "await") =>
    /\ result' = <<StepResult(CurrentStep, response'[1])>>
    /\ variables' = VariablesAfter(CurrentStep, variables, response'[1])
    /\ result'[1].success => pc' = "delay"

(* nothing is issued during the delay, and the loop comes to a step after  *)
(* the first one only from the delay                                       *)
NextStepAfterDelay ==
  /\ pc = "delay" => (pc' = "steps" /\ issued' = issued /\ stepIdx' = stepIdx + 1)
  /\ (pc' = "steps" /\ stepIdx' > 1 /\ pc # "steps") => pc = "delay"

(* C36: suites and steps run one after the other in the order of the plan: *)
(* at most one request is in flight at any time, and the request of the    *)
(* next step of a suite is issued only after the response of the step      *)
(* before it has been evaluated, its variables stored and the delay         *)
(* between steps has elapsed.                                              *)
C36_OneRequestAtATime ==
  /\ [](Cardinality(InFlight) <= 1 /\ (InFlight # {} <=> pc = "await"))
  /\ [][IssuedInTurn /\ EvaluatedThenDelayed /\ NextStepAfterDelay]_vars

(* the second step of a suite is in flight after the first one passed *)
C36_Witness ==
  /\ pc = "await"
  /\ InFlight = {<<1, 2>>}
  /\ Passed(1, 1)
  /\ <<1, 1>> \in issued


----------------------------------------------------------------------------
(* Further properties of the URL resolution *)

(* both scripts have resolved the URL from the mapping *)
BothResolved == uBaseUrl # <<>> /\ uApiUrl # <<>>

(* if (!baseUrl) and if (!apiUrl): the script ends with "No API URL found" *)
NoEndpoint(url) == ~Truthy(url)

(* C37: for every mapping of outputs the URL ai-generate-tests.js chooses  *)
(* is the one execute-tests.js chooses, and one of them ends with no       *)
(* endpoint exactly when the other does.                                   *)
C37_SameUrlInBothScripts ==
  BothResolved =>
    /\ uApiUrl[1] = uBaseUrl[1]
    /\ NoEndpoint(uApiUrl[1]) <=> NoEndpoint(uBaseUrl[1])

(* with ApiUrl and endpoint both set, both scripts took ApiUrl *)
C37_Witness ==
  /\ BothResolved
  /\ HasOwn(uOutputs, K_ApiUrl)
  /\ HasOwn(uOutputs, ConventionalKeys[3])
  /\ OwnGet(uOutputs, ConventionalKeys[3]) = Str(<<"h","t","t","p","s",":","/","/","b">>)
  /\ uApiUrl[1] = Str(<<"h","t","t","p",":","/","/","a">>)
  /\ uBaseUrl[1] = uApiUrl[1]

(* both scripts found no endpoint in a mapping without a URL *)
BothWithoutEndpoint ==
  /\ BothResolved
  /\ uOutputs # <<>>
  /\ NoEndpoint(uApiUrl[1])
  /\ NoEndpoint(uBaseUrl[1])


(* the keys under which a script looks for the URL *)
IsConventionalKey(k) == \E i \in 1..Len(ConventionalKeys) : ConventionalKeys[i] = k

(* the document has no conventional URL key and no value beginning with http *)
WithoutUrl(doc) ==
  \A i \in 1..Len(doc.o) :
    /\ ~IsConventionalKey(doc.o[i][1])
    /\ ~startsWithHttp(doc.o[i][2])

(* C38: in a run of the lambda kind the outputs extracted hold no          *)
(* conventional URL key and no value beginning with http, the resolution   *)
(* of the URL ends ai-generate-tests.js with status 1, and neither the     *)
(* synthesis by callAI nor the execution of tests is reached.              *)
C38_LambdaRunStopsAtUrl ==
  rdIacType = "lambda" =>
    /\ eoStdout # <<>> => WithoutUrl(eoStdout[1])
    /\ gPc \in {"idle", "main", "exited"}
    /\ gPc = "exited" => gExit = <<1>>
    /\ aiCalls = 0
    /\ gResponse = <<>>
    /\ files.plan = <<>>
    /\ pc = "idle"
    /\ issued = {}

(* the lambda was deployed, its two outputs were extracted, and            *)
(* ai-generate-tests.js ended for want of a URL                            *)
C38_Witness ==
  /\ rdIacType = "lambda"
  /\ rdExit = <<0>>
  /\ eoStdout = <<Obj(<< <<<<"F","u","n","c","t","i","o","n","A","r","n">>, Str(<<"a","r","n",":","a","w","s",":","l","a","m","b","d","a",":","u","s","-","e","a","s","t","-","1",":","1",":","f","u","n","c","t","i","o","n",":","s","t","k","-","F","u","n","c","t","i","o","n","-","1">>)>>,
                         <<<<"F","u","n","c","t","i","o","n","N","a","m","e">>, Str(<<"s","t","k","-","F","u","n","c","t","i","o","n","-","1">>)>> >>)>>
  /\ gPc = "exited"
  /\ gApiUrl = Undefined
  /\ gExit = <<1>>


(* the suites reported with "Suite failed" *)
SuitesFailed == {s \in 1..Len(suiteLog) : ~suiteLog[s]}

(* the steps of suite s that failed *)
FailedSteps(s) == {t \in results : t[1] = s /\ ~t[3].success}

(* C39: a suite has at most one failed step, and at the end of a run the   *)
(* failed count is the number of suites reported as failed, which is at    *)
(* most the number of suites of the plan.                                  *)
C39_OneFailurePerSuite ==
  /\ \A s \in 1..Len(testPlan) : Cardinality({t[2] : t \in FailedSteps(s)}) <= 1
  /\ failedTests <= Len(testPlan)
  /\ Summarised =>
       /\ Len(suiteLog) = Len(testPlan)
       /\ summary[1].failed = Cardinality(SuitesFailed)
       /\ summary[1].failed <= Len(testPlan)
       /\ \A s \in 1..Len(testPlan) : s \in SuitesFailed <=> FailedSteps(s) # {}

(* a run of two suites ended with both reported as failed and a count of 2 *)
C39_Witness ==
  /\ Summarised
  /\ Len(testPlan) = 2
  /\ SuitesFailed = {1, 2}
  /\ summary[1].failed = 2
  /\ Len(SuiteOf(1)) > 1


----------------------------------------------------------------------------
(* The Platform Hub: the API routes POST /api/scaffold, POST               *)
(* /api/sdlc-deploy and GET /api/status/[issueNumber], and the GitHub      *)
(* client they call.  A request of the client to the GitHub API resolves,  *)
(* or rejects with an error that carries the HTTP status.                  *)

DispatchRoutes == {"scaffold", "sdlc-deploy"}

Routes == DispatchRoutes \cup {"status"}

AuthenticatedAlways(session) == TRUE

(* !(!session || !session.user) *)
Authenticated(session) == session = "user"

(* the catch block of the two POST routes *)
DispatchErrorStatus(status) ==
  IF status = 404 THEN 404 ELSE IF status = 403 THEN 403 ELSE 500

(* the catch block of the GET route *)
StatusErrorStatus(status) == IF status = 404 THEN 404 ELSE 500

ErrorStatus(route, status) ==
  IF route \in DispatchRoutes THEN DispatchErrorStatus(status)
  ELSE StatusErrorStatus(status)

(* workflow_id of the dispatch *)
WorkflowOf(route) == IF route = "scaffold" THEN "scaffold.yml" ELSE "sdlc-loop.yml"

(* how a request to the GitHub API ends: 200 stands for resolved, the      *)
(* others for the status of the error it rejects with                      *)
GithubOutcomes == {200, 403, 404, 500}

GithubRequest(api, workflow, issue) ==
  [api |-> api, workflow |-> workflow, task_issue_number |-> issue]

(* NextResponse.json(..., {status}) *)
HubResponse(status, sessionId) == [status |-> status, sessionId |-> sessionId]

(* Inputs of a request to a route *)
HubInit ==
  /\ hbRoute \in Routes
  /\ hbSession \in {"none", "nouser", "user"}
  /\ hbInput \in {"malformed", "invalid", "valid"}
  /\ hbRoute = "status" => hbInput # "malformed"
  /\ hbEnv \in BOOLEAN
  /\ hbIssueNumber \in {7, 42}
  /\ hbPc = "start"
  /\ hbRequests = <<>>
  /\ hbIssues = {}
  /\ hbDispatched = {}
  /\ hbResponse = <<>>

nonHubVars == <<coreVars, deployVars, outputsVars, generatorVars, callVars,
    nestedVars>>

hubInputs == <<hbRoute, hbSession, hbInput, hbEnv, hbIssueNumber>>

(* the handler returns a response *)
Responds(status, sessionId) ==
  /\ hbResponse' = <<HubResponse(status, sessionId)>>
  /\ hbPc' = "done"

(* 401 Unauthorized *)
HubUnauthorized ==
  /\ hbPc = "start"
  /\ ~Authenticated(hbSession)
  /\ Responds(401, <<>>)
  /\ UNCHANGED <<hubInputs, hbRequests, hbIssues, hbDispatched, nonHubVars>>

(* req.json() rejects: the catch block answers 500 *)
HubMalformed ==
  /\ hbPc = "start"
  /\ Authenticated(hbSession)
  /\ hbInput = "malformed"
  /\ Responds(500, <<>>)
  /\ UNCHANGED <<hubInputs, hbRequests, hbIssues, hbDispatched, nonHubVars>>

(* 400 Validation failed, Invalid issue number, Missing or invalid repo *)
HubInvalid ==
  /\ hbPc = "start"
  /\ Authenticated(hbSession)
  /\ hbInput = "invalid"
  /\ Responds(400, <<>>)
  /\ UNCHANGED <<hubInputs, hbRequests, hbIssues, hbDispatched, nonHubVars>>

(* new GitHubClient() throws: the catch block answers 500 *)
HubUnconfigured ==
  /\ hbPc = "start"
  /\ Authenticated(hbSession)
  /\ hbInput = "valid"
  /\ ~hbEnv
  /\ Responds(500, <<>>)
  /\ UNCHANGED <<hubInputs, hbRequests, hbIssues, hbDispatched, nonHubVars>>

(* the request is made; when it rejects the error reaches the catch block  *)
(* of the route                                                            *)
Requested(call, outcome) ==
  /\ hbRequests' = Append(hbRequests, call)
  /\ outcome # 200 => Responds(ErrorStatus(hbRoute, outcome), <<>>)

(* getInstallationClient: GET /repos/{owner}/{repo}/installation *)
HubInstallation ==
  /\ hbPc = "start"
  /\ Authenticated(hbSession)
  /\ hbInput = "valid"
  /\ hbEnv
  /\ \E outcome \in GithubOutcomes :
       /\ Requested(GithubRequest("installation", "", <<>>), outcome)
       /\ outcome = 200 => (hbPc' = "installed" /\ UNCHANGED hbResponse)
  /\ UNCHANGED <<hubInputs, hbIssues, hbDispatched, nonHubVars>>

(* 1. Create tracking issue *)
HubCreateIssue ==
  /\ hbPc = "installed"
  /\ hbRoute \in DispatchRoutes
  /\ \E outcome \in GithubOutcomes :
       /\ Requested(GithubRequest("createIssue", "", <<>>), outcome)
       /\ IF outcome = 200
            THEN /\ hbIssues' = hbIssues \cup {hbIssueNumber}
                 /\ hbPc' = "issueCreated"
                 /\ UNCHANGED hbResponse
            ELSE UNCHANGED hbIssues
  /\ UNCHANGED <<hubInputs, hbDispatched, nonHubVars>>

(* 2. Dispatch workflow, and the return of sessionId to the route, which   *)
(* answers 202                                                             *)
HubDispatch ==
  /\ hbPc = "issueCreated"
  /\ LET call == GithubRequest("dispatch", WorkflowOf(hbRoute), NumStr(hbIssueNumber))
     IN \E outcome \in GithubOutcomes :
          /\ Requested(call, outcome)
          /\ IF outcome = 200
               THEN /\ hbDispatched' = hbDispatched \cup {call}
                    /\ Responds(202, NumStr(hbIssueNumber))
               ELSE UNCHANGED hbDispatched
  /\ UNCHANGED <<hubInputs, hbIssues, nonHubVars>>

(* getStatus: GET /repos/{owner}/{repo}/issues/{issue_number} *)
HubGetIssue ==
  /\ hbPc = "installed"
  /\ hbRoute = "status"
  /\ \E outcome \in GithubOutcomes :
       /\ Requested(GithubRequest("getIssue", "", NumStr(hbIssueNumber)), outcome)
       /\ outcome = 200 => (hbPc' = "issueRead" /\ UNCHANGED hbResponse)
  /\ UNCHANGED <<hubInputs, hbIssues, hbDispatched, nonHubVars>>

(* getStatus: GET .../issues/{issue_number}/comments, and the answer 200 *)
HubGetComments ==
  /\ hbPc = "issueRead"
  /\ \E outcome \in GithubOutcomes :
       /\ Requested(GithubRequest("getComments", "", NumStr(hbIssueNumber)), outcome)
       /\ outcome = 200 => Responds(200, NumStr(hbIssueNumber))
  /\ UNCHANGED <<hubInputs, hbIssues, hbDispatched, nonHubVars>>

HubNext ==
  \/ HubUnauthorized
  \/ HubMalformed
  \/ HubInvalid
  \/ HubUnconfigured
  \/ HubInstallation
  \/ HubCreateIssue
  \/ HubDispatch
  \/ HubGetIssue
  \/ HubGetComments

InitHub ==
  /\ HubInit
  /\ ExecIdle /\ SubstIdle /\ UrlIdle /\ DetectIdle /\ ExtractIdle /\ SynthIdle
  /\ DeployIdle /\ OutputsIdle /\ GeneratorIdle /\ CallIdle /\ NestedIdle

SpecHub == InitHub /\ [][HubNext]_vars

----------------------------------------------------------------------------
(* Properties of the Platform Hub *)

(* the handler has returned *)
HubDone == hbPc = "done" /\ hbResponse # <<>>

RequestsOf(api) == {i \in 1..Len(hbRequests) : hbRequests[i].api = api}

(* the issue is created before the workflow is dispatched, the dispatch    *)
(* carries the number of the issue as task_issue_number, and the answer    *)
(* 202 carries it as sessionId                                             *)
IssueThenDispatch ==
  /\ \A d \in RequestsOf("dispatch") :
       /\ \E c \in RequestsOf("createIssue") : c < d
       /\ hbIssues # {}
       /\ \E n \in hbIssues : hbRequests[d].task_issue_number = NumStr(n)
       /\ hbRequests[d].workflow = WorkflowOf(hbRoute)
  /\ hbDispatched # {} => hbIssues # {}
  /\ (HubDone /\ hbResponse[1].status = 202) =>
       /\ hbDispatched # {}
       /\ \E n \in hbIssues : hbResponse[1].sessionId = NumStr(n)

(* every tracking issue has its workflow *)
EveryIssueHasWorkflow ==
  \A n \in hbIssues : \E d \in hbDispatched : d.task_issue_number = NumStr(n)

(* C40: dispatchScaffold and dispatchSDLC create the tracking issue before *)
(* they dispatch the workflow, pass the number of the issue as             *)
(* task_issue_number and return it as sessionId, and when a call has       *)
(* ended every tracking issue it created has its workflow dispatched, also *)
(* when the call failed.                                                   *)
C40_IssueAndWorkflowTogether ==
  /\ IssueThenDispatch
  /\ HubDone => EveryIssueHasWorkflow

(* the call failed at the dispatch and left its issue without a workflow *)
IssueLeftWithoutWorkflow ==
  /\ HubDone
  /\ hbResponse[1].status = 404
  /\ hbIssues = {hbIssueNumber}
  /\ hbDispatched = {}
  /\ RequestsOf("dispatch") # {}

(* a call that succeeded: issue 42, dispatched with "42", answered 202 *)
DispatchedWithIssueNumber ==
  /\ HubDone
  /\ hbResponse[1] = HubResponse(202, <<"4", "2">>)
  /\ hbIssues = {42}
  /\ \E d \in hbDispatched : d.task_issue_number = <<"4", "2">>


-----------------------------------------------------------------------------
(* The network calls of the stages and the time they may take:
   executeStep's axios call, and the request of each callAI backend *)

NetworkCalls ==
  {"executeStep", "callBedrock", "callOpenAI", "callAnthropic",
   "callAzureOpenAI"}

(* the timeout a call hands to its client: <<milliseconds>>, <<>> for none.
   executeStep passes timeout to axios; no backend passes one, neither to
   the constructor of its client nor to the request *)
ExplicitTimeout(call) ==
  CASE call = "executeStep" -> <<RequestTimeoutMs>>
    [] call = "callBedrock" -> <<>>
    [] call = "callOpenAI" -> <<>>
    [] call = "callAnthropic" -> <<>>
    [] call = "callAzureOpenAI" -> <<>>

(* <<the call the run is waiting for>>, <<>> when it waits for none *)
Awaited ==
  IF pc = "await" THEN <<"executeStep">>
  ELSE IF /\ caPc = "backend"
          /\ \A name \in Credentials(caBackends[Len(caBackends)]) :
               caEnv[name] # <<>>
       THEN <<caBackends[Len(caBackends)]>>
       ELSE <<>>

(* a run of execute-tests.js, or a call of callAI awaited by a generator *)
InitNetwork == Init \/ InitCall

(* a remote side answers or fails *)
RemoteSettles == StepSettle \/ BackendSettles

(* what the script does by itself: synchronous code and its own timers *)
LocalStep ==
  \/ MainNoPlan
  \/ MainNoBaseUrl
  \/ MainStart
  \/ SuiteStart
  \/ StepIssue
  \/ DelayElapsed
  \/ StepsDone
  \/ SuiteEnd
  \/ Summary
  \/ CallUnsupported
  \/ CallDispatch
  \/ BackendUnconfigured

NetworkNext == LocalStep \/ RemoteSettles

(* the remote side may never answer: an awaited call is sure to settle
   only when a timeout bounds it *)
SettlesInTime ==
  /\ Awaited # <<>>
  /\ ExplicitTimeout(Awaited[1]) # <<>>
  /\ RemoteSettles

SpecNetwork ==
  /\ InitNetwork
  /\ [][NetworkNext]_vars
  /\ WF_vars(LocalStep)
  /\ WF_vars(SettlesInTime)

Terminated == pc = "exited" \/ caPc = "settled"

EveryCallCarriesTimeout ==
  Awaited # <<>> => ExplicitTimeout(Awaited[1]) # <<>>

(* C31: every network call of a stage, HTTP test request or AI generation
   call, carries an explicit timeout, so the stage ends, completed or
   failed, even when the remote side never answers *)
C31_BoundedCallsStagesTerminate ==
  /\ []EveryCallCarriesTimeout
  /\ <>Terminated

(* the half of it that the code keeps: a run of execute-tests.js ends *)
TestRunTerminates == (pc = "main") ~> (pc = "exited")

HttpCallCarriesTimeout == pc = "await" => EveryCallCarriesTimeout

(* the half it does not keep: a backend awaited with no timeout *)
BackendAwaitedUnbounded ==
  /\ caPc = "backend"
  /\ Awaited # <<>>
  /\ ExplicitTimeout(Awaited[1]) = <<>>

(* does not hold: nothing but the remote side ends the wait for a backend *)
AwaitedBackendSettles == (caPc = "backend") ~> (caPc = "settled")

====
